---- MODULE Spec2Model ----
(***************************************************************************)
(* Model of the MQTT client shell (mqtt_client_shell.py): the three nested *)
(* consoles (MainConsole -> ConnectionConsole -> MessagingConsole), the    *)
(* connect sequence of ConnectionConsole.do_connect, and the subscription  *)
(* registry of SubscriptionHandler.                                        *)
(*                                                                         *)
(* One step of the model is one dispatched command line (cmd.Cmd.onecmd    *)
(* with everything the handler calls), or an operator interrupt.  The      *)
(* protocol client (paho) is external: every call on it returns a result   *)
(* code or raises, chosen nondeterministically.                            *)
(***************************************************************************)
EXTENDS Integers, Sequences, FiniteSets, TLC

\* ------------------------------------------------------------------ bounds
MaxTopics == 2      \* distinct non-empty topic strings typed in SpecRegistry
MaxConsoleTopics == 1   \* distinct non-empty topic strings typed in Spec
MaxRc == 1          \* result codes 0..MaxRc are returned by the protocol client
MaxHandles == 2     \* `connection` commands (handles constructed) per run
MaxSessions == 1    \* successful connects (Messaging sessions) per run
MaxPublishes == 3   \* client.publish() calls per Messaging session
MaxArgLen == 2      \* characters in the argument of a port/keepalive/pacing line
MaxScriptLen == 3   \* lines in the playback script file
MaxSteps == 5       \* command lines a run of SpecScript takes
MaxFieldLines == 4  \* command lines a run of SpecFields takes
MaxTextLen == 3     \* characters of a topic text the operator types

\* --------------------------------------------------------------- constants
MQTT_ERR_SUCCESS == 0
RAISED == 0 - 1          \* outcome of a protocol call that raises
NoHandle == 0            \* context.mqttclient is None
EmptyTopic == 0          \* a falsy topic ("" or None)
DefaultPort == 1883
DefaultKeepalive == 60
DefaultPacing == 0
DefaultLoggingIndent == 30
DefaultProtocol == 4     \* mqtt.MQTTv311
DefaultCertReqs == 2     \* ssl.CERT_REQUIRED
DefaultTlsVersion == 3   \* ssl.PROTOCOL_TLSv1

Topics == 1..MaxTopics
ConsoleTopics == 1..MaxConsoleTopics
QoS == 0..2
ResultCodes == 0..MaxRc
Outcomes == ResultCodes \cup {RAISED}
PahoVersions == {"pre-1.3", "1.3.x", "1.4+"}

VARIABLES
    console,         \* the console whose cmdloop reads the next line
    pahoVersion,     \* paho.mqtt.__version__, fixed for the run
    mqttclient,      \* context.mqttclient: NoHandle or the handle's identity
    handlesBuilt,    \* mqtt.Client objects constructed so far
    will,            \* connection_args.will: "None", "NoTopic" or "Topic"
    username,        \* connection_args.username is non-empty
    ca_certs,        \* tls_args.ca_certs_filepath is non-empty
    loopRunning,     \* the handle's background loop thread is running
    loopStarts,      \* loop_start() calls so far
    loopStops,       \* loop_stop() calls so far
    disconnects,     \* disconnect() calls so far
    subscriptions,   \* SubscriptionHandler._subscriptions
    prevSubs,        \* _subscriptions as the last step found it
    lastAccepted,    \* per topic: qos of the latest accepted subscribe, or -1
    lastCmd,         \* the command line dispatched by the last step
    calls,           \* the protocol-handle calls the last step issued, in order
    msg_seq,         \* MessagePublisher._msg_seq
    pubsIssued,      \* client.publish() calls issued in this Messaging session
    onlySeqAccepted, \* every one of them carried a {seq} text and was accepted
    lastPub,         \* the last step's `publish` line: payload typed, fetch, payload sent
    port,            \* connection_args.port
    keepalive,       \* connection_args.keepalive
    pacing,          \* context.pacing, in units of 1/Scale second
    lastArg,         \* the argument text of the last port/keepalive/pacing line
    prevNum,         \* the value that line found in the field it names
    diag,            \* that line printed an "Invalid ... value" diagnostic
    cmdqueue,        \* per console object: cmd.Cmd.cmdqueue
    lastcmd,         \* per console object: cmd.Cmd.lastcmd
    recording_file,  \* context.recording_file: NotOpen or the file's name
    playback_file,   \* context.playback_file: 0 for None, else the next line to read
    script,          \* the lines of the playback script file
    recorded,        \* the lines written to the recording file so far
    linesTaken,      \* command lines taken by a cmdloop so far
    lastLine,        \* the line the last step took from the queue or the operator
    fromPlayback,    \* that line came from the queue
    wasRecording,    \* recording_file as precmd found it in the last step
    appended,        \* precmd wrote the line to the recording file
    consults,        \* the consoles that called _playback_file_cmd in the last step
    played,          \* lines of the open playback file taken from a queue so far
    run,             \* 1: the run of the program; 2: a later run that replays its recording
    trace,           \* this run's protocol calls and configuration changes, in order
    firstTrace,      \* the trace of run 1, kept for run 2
    client_args,     \* context.client_args: client_id, clean_session, protocol, transport
    host,            \* connection_args.host
    tls_args,        \* connection_args.tls_args: cert_reqs, tls_version, ciphers, tls_insecure
    logging_enabled, \* context.logging_enabled
    logging_indent,  \* context.logging_indent
    prompt_verbosity,\* context.prompt_verbosity
    notice,          \* what the last step printed besides an "Invalid ..." diagnostic
    fieldLines,      \* command lines taken so far in a run of SpecFields
    tlsOnHandle,     \* a tls_set() call on the handle in the context has returned
    builtFrom,       \* the client_args that handle was constructed from
    filesOpened,     \* open() calls of do_record and do_playback that have returned
    filesClosed      \* close() calls on those files

pubVars == <<msg_seq, pubsIssued, onlySeqAccepted, lastPub>>
setVars == <<port, keepalive, pacing, lastArg, prevNum, diag>>
scriptVars == <<cmdqueue, lastcmd, recording_file, playback_file, script, recorded, linesTaken,
                lastLine, fromPlayback, wasRecording, appended, consults, played>>
replayVars == <<run, trace, firstTrace>>
fieldVars == <<client_args, host, tls_args, logging_enabled, logging_indent, prompt_verbosity,
               notice, fieldLines>>
handleVars == <<tlsOnHandle, builtFrom>>
fileVars == <<filesOpened, filesClosed>>

vars == <<console, pahoVersion, mqttclient, handlesBuilt, will, username,
          ca_certs, loopRunning, loopStarts, loopStops, disconnects,
          subscriptions, prevSubs, lastAccepted, lastCmd, calls, pubVars, setVars,
          scriptVars, replayVars, fieldVars, handleVars, fileVars>>

connArgs == <<will, username, ca_certs>>
loopVars == <<loopRunning, loopStarts, loopStops, disconnects>>
subVars  == <<subscriptions, prevSubs, lastAccepted>>

\* ----------------------------------------------------------------- helpers
Cmd(name, topic, qos) == [name |-> name, topic |-> topic, qos |-> qos]
Call(op, topic, qos, rc) == [op |-> op, topic |-> topic, qos |-> qos, rc |-> rc]

RECURSIVE CountOp(_, _)
CountOp(cs, op) ==
    IF cs = <<>> THEN 0
    ELSE (IF Head(cs).op = op THEN 1 ELSE 0) + CountOp(Tail(cs), op)

Subscription(topic, qos) == [topic |-> topic, qos |-> qos]
NoneAccepted == [t \in Topics |-> 0 - 1]

NoFetch == "no-fetch"
Sent(kind, seq) == [kind |-> kind, seq |-> seq]
Unsent == Sent("unsent", 0)
NoPub == [payload |-> "none", fetch |-> NoFetch, sent |-> Unsent]

\* MessagePublisher.__init__
PublisherInit ==
    /\ msg_seq = 1
    /\ pubsIssued = 0
    /\ onlySeqAccepted = TRUE
    /\ lastPub = NoPub

\* ConnectionArgs.__init__ and ConsoleContext.__init__: every field at its default.
SettingsInit ==
    /\ port = DefaultPort
    /\ keepalive = DefaultKeepalive
    /\ pacing = DefaultPacing
    /\ lastArg = <<>>
    /\ prevNum = 0
    /\ diag = FALSE

Consoles == {"Top", "Connection", "Messaging"}
NotOpen == "None"

\* cmd.Cmd.__init__ of the first console and ConsoleContext.__init__: nothing
\* queued, no file open; no playback script, nothing recorded.
ScriptInit ==
    /\ cmdqueue = [c \in Consoles |-> <<>>]
    /\ lastcmd = [c \in Consoles |-> <<>>]
    /\ recording_file = NotOpen
    /\ playback_file = 0
    /\ script = <<>>
    /\ recorded = <<>>
    /\ linesTaken = 0
    /\ lastLine = <<>>
    /\ fromPlayback = FALSE
    /\ wasRecording = NotOpen
    /\ appended = FALSE
    /\ consults = <<>>
    /\ played = 0

NoTrace == [calls |-> <<>>, config |-> <<>>]

\* ClientArgs(), ConnectionArgs() with its TLSArgs(), and ConsoleContext(...) as
\* __main__ constructs them: every field at its default.
FieldsInit ==
    /\ client_args = [client_id |-> "default", clean_session |-> TRUE,
                      protocol |-> DefaultProtocol, transport |-> "tcp"]
    /\ host = "localhost"
    /\ tls_args = [cert_reqs |-> DefaultCertReqs, tls_version |-> DefaultTlsVersion,
                   ciphers |-> "None", tls_insecure |-> FALSE]
    /\ logging_enabled = TRUE
    /\ logging_indent = DefaultLoggingIndent
    /\ prompt_verbosity = "H"
    /\ notice = {}
    /\ fieldLines = 0

\* No handle in the context (mqttclient=None), so nothing it was built from.
NoIdentity == "None"

\* A handle that exists at the start was constructed by do_connection from the
\* client_args of that moment, and no protocol call has been made on it.
HandleInit ==
    /\ tlsOnHandle = FALSE
    /\ builtFrom = (IF mqttclient = NoHandle THEN NoIdentity ELSE client_args)

\* No file has been opened.
FilesInit ==
    /\ filesOpened = 0
    /\ filesClosed = 0

ReplayInit ==
    /\ run = 1
    /\ trace = NoTrace
    /\ firstTrace = NoTrace

Init ==
    /\ console = "Top"
    /\ pahoVersion \in PahoVersions
    /\ mqttclient = NoHandle
    /\ handlesBuilt = 0
    /\ will = "None"
    /\ username = FALSE
    /\ ca_certs = FALSE
    /\ loopRunning = FALSE
    /\ loopStarts = 0
    /\ loopStops = 0
    /\ disconnects = 0
    /\ subscriptions = {}
    /\ prevSubs = {}
    /\ lastAccepted = NoneAccepted
    /\ lastCmd = Cmd("none", EmptyTopic, 0)
    /\ calls = <<>>
    /\ PublisherInit
    /\ SettingsInit
    /\ ScriptInit
    /\ ReplayInit
    /\ FilesInit
    /\ FieldsInit
    /\ HandleInit

\* ------------------------------------------------------------- MainConsole
\* A variant that keeps the handle in the context.
HandleAfterConnection_Kept(h) == h

\* The handle left in the context when ConnectionConsole.cmdloop returns.
HandleAfterConnection(h) == NoHandle

\* do_connection, up to the nested ConnectionConsole.cmdloop().
do_connection ==
    /\ console = "Top"
    /\ handlesBuilt < MaxHandles
    /\ handlesBuilt' = handlesBuilt + 1
    /\ mqttclient' = handlesBuilt + 1
    /\ loopRunning' = FALSE
    /\ console' = "Connection"
    /\ lastCmd' = Cmd("connection", EmptyTopic, 0)
    /\ calls' = <<>>
    /\ UNCHANGED <<pahoVersion, connArgs, loopStarts, loopStops, disconnects, subVars>>

\* Leaving MainConsole ends the program; the shutdown sequence disconnects and
\* stops the loop only if a handle is still in the context.
ShutdownCalls(h) ==
    IF h # NoHandle THEN <<Call("disconnect", EmptyTopic, 0, 0), Call("loop_stop", EmptyTopic, 0, 0)>>
    ELSE <<>>

\* exit / quit / EOF in MainConsole, then the shutdown sequence of __main__.
TopExit(name) ==
    /\ console = "Top"
    /\ console' = "Exited"
    /\ lastCmd' = Cmd(name, EmptyTopic, 0)
    /\ calls' = ShutdownCalls(mqttclient)
    /\ disconnects' = disconnects + CountOp(calls', "disconnect")
    /\ loopStops' = loopStops + CountOp(calls', "loop_stop")
    /\ loopRunning' = (loopRunning /\ CountOp(calls', "loop_stop") = 0)
    /\ UNCHANGED <<pahoVersion, mqttclient, handlesBuilt, connArgs, loopStarts, subVars>>

\* ------------------------------------------------------- ConnectionConsole
\* do_will: parse_msg_input always returns a Message; a blank argument gives
\* one whose topic is None.
do_will(arg) ==
    /\ console = "Connection"
    /\ will' = (IF arg = "blank" THEN "NoTopic" ELSE "Topic")
    /\ lastCmd' = Cmd("will", EmptyTopic, 0)
    /\ calls' = <<>>
    /\ UNCHANGED <<console, pahoVersion, mqttclient, handlesBuilt, username, ca_certs,
                   loopVars, subVars>>

do_username(nonEmpty) ==
    /\ console = "Connection"
    /\ username' = nonEmpty
    /\ lastCmd' = Cmd("username", EmptyTopic, 0)
    /\ calls' = <<>>
    /\ UNCHANGED <<console, pahoVersion, mqttclient, handlesBuilt, will, ca_certs,
                   loopVars, subVars>>

do_ca_certs_filepath(nonEmpty) ==
    /\ console = "Connection"
    /\ ca_certs' = nonEmpty
    /\ lastCmd' = Cmd("ca_certs_filepath", EmptyTopic, 0)
    /\ calls' = <<>>
    /\ UNCHANGED <<console, pahoVersion, mqttclient, handlesBuilt, will, username,
                   loopVars, subVars>>

\* The credentials step of do_connect: the stored username and password, or the
\* version-dependent way of clearing the username on the handle.
CredentialStep(u, ver) ==
    IF u THEN "username_pw_set(username,password)"
    ELSE IF ver = "pre-1.3" THEN "username_pw_set('',None)"
    ELSE IF ver = "1.3.x" THEN "_username=None"
    ELSE "username_pw_set(None,None)"

ClearingSteps == {"username_pw_set('',None)", "_username=None", "username_pw_set(None,None)"}

\* A variant that leaves the handle's credentials alone when no username is stored.
ConnectSteps_NoClearing(w, u, ca, ver) ==
    (IF w # "None" THEN <<"will_set">> ELSE <<>>)
    \o (IF u THEN <<CredentialStep(u, ver)>> ELSE <<>>)
    \o (IF ca THEN <<"tls_set", "tls_insecure_set">> ELSE <<>>)
    \o <<"connect">>

\* The operations do_connect performs on the handle inside its try block, in order.
ConnectSteps(w, u, ca, ver) ==
    (IF w # "None" THEN <<"will_set">> ELSE <<>>)
    \o <<CredentialStep(u, ver)>>
    \o (IF ca THEN <<"tls_set", "tls_insecure_set">> ELSE <<>>)
    \o <<"connect">>

\* A variant that takes every returned result code for a connection.
Connected_AnyCode(rc) == TRUE

\* connected = (rc == mqtt.MQTT_ERR_SUCCESS)
Connected(rc) == rc = MQTT_ERR_SUCCESS

\* A variant that enters Messaging without starting the loop.
EnterCalls_NoLoop == <<>>

\* What do_connect calls on the handle before MessagingConsole.cmdloop().
EnterCalls == <<Call("loop_start", EmptyTopic, 0, 0)>>

\* A variant that stops the loop before it disconnects.
CleanupCalls_StopFirst == <<Call("loop_stop", EmptyTopic, 0, 0), Call("disconnect", EmptyTopic, 0, 0)>>

\* What do_connect calls on the handle after MessagingConsole.cmdloop() returns.
CleanupCalls == <<Call("disconnect", EmptyTopic, 0, 0), Call("loop_stop", EmptyTopic, 0, 0)>>

\* do_connect up to the nested MessagingConsole.cmdloop(): steps 1..n are issued,
\* the first n-1 return, step n has outcome out.  The sequence stops before its
\* last step only when a step raises; the attribute write cannot raise.
do_connect ==
    /\ console = "Connection"
    /\ LET steps == ConnectSteps(will, username, ca_certs, pahoVersion) IN
       \E n \in 1..Len(steps), out \in Outcomes :
          /\ n < Len(steps) => out = RAISED
          /\ (out = RAISED) => steps[n] # "_username=None"
          /\ LET issued == [i \in 1..n |-> Call(steps[i], EmptyTopic, 0, IF i < n THEN 0 ELSE out)]
                 entered == out # RAISED /\ Connected(out)
             IN IF entered
                THEN /\ loopStarts < MaxSessions
                     /\ calls' = issued \o EnterCalls
                     /\ loopStarts' = loopStarts + CountOp(EnterCalls, "loop_start")
                     /\ loopRunning' = (loopRunning \/ CountOp(EnterCalls, "loop_start") > 0)
                     /\ console' = "Messaging"
                     /\ subscriptions' = {}
                     /\ prevSubs' = {}
                     /\ lastAccepted' = NoneAccepted
                     /\ UNCHANGED <<loopStops, disconnects>>
                ELSE /\ calls' = issued
                     /\ UNCHANGED <<console, loopVars, subVars>>
    /\ lastCmd' = Cmd("connect", EmptyTopic, 0)
    /\ UNCHANGED <<pahoVersion, mqttclient, handlesBuilt, connArgs>>

\* exit / quit / EOF in ConnectionConsole: do_connection resumes after cmdloop().
ConnectionExit(name) ==
    /\ console = "Connection"
    /\ console' = "Top"
    /\ mqttclient' = HandleAfterConnection(mqttclient)
    /\ lastCmd' = Cmd(name, EmptyTopic, 0)
    /\ calls' = <<>>
    /\ UNCHANGED <<pahoVersion, handlesBuilt, connArgs, loopVars, subVars>>

\* -------------------------------------------------------- MessagingConsole
\* disconnect / exit / quit / EOF return True: MessagingConsole.cmdloop() returns
\* and do_connect resumes with its cleanup.  The MessagingConsole and its
\* SubscriptionHandler are not referenced again: their registry is gone.
MessagingExit(name) ==
    /\ console = "Messaging"
    /\ console' = "Connection"
    /\ lastCmd' = Cmd(name, EmptyTopic, 0)
    /\ calls' = CleanupCalls
    /\ disconnects' = disconnects + CountOp(CleanupCalls, "disconnect")
    /\ loopStops' = loopStops + CountOp(CleanupCalls, "loop_stop")
    /\ loopRunning' = (loopRunning /\ CountOp(CleanupCalls, "loop_stop") = 0)
    /\ subscriptions' = {}
    /\ prevSubs' = {}
    /\ lastAccepted' = NoneAccepted
    /\ UNCHANGED <<pahoVersion, mqttclient, handlesBuilt, connArgs, loopStarts>>

\* SubscriptionHandler._discard_sub
discard_sub(subs, topic) == {s \in subs : s.topic # topic}

\* A variant that adds the new entry without discarding the topic's old one.
SubscribeRegistry_NoDiscard(subs, sub, rc) ==
    IF rc = MQTT_ERR_SUCCESS THEN subs \cup {sub} ELSE subs

\* A variant that discards the topic's old entry before looking at the result.
SubscribeRegistry_DiscardFirst(subs, sub, rc) ==
    IF rc = MQTT_ERR_SUCCESS THEN discard_sub(subs, sub.topic) \cup {sub}
    ELSE discard_sub(subs, sub.topic)

\* The registry after SubscriptionHandler.subscribe's protocol call gave rc.
SubscribeRegistry(subs, sub, rc) ==
    IF rc = MQTT_ERR_SUCCESS THEN discard_sub(subs, sub.topic) \cup {sub} ELSE subs

\* A variant that discards the entry whatever the result.
UnsubscribeRegistry_Always(subs, topic, rc) == discard_sub(subs, topic)

\* The registry after SubscriptionHandler.unsubscribe's protocol call gave rc.
UnsubscribeRegistry(subs, topic, rc) ==
    IF rc = MQTT_ERR_SUCCESS THEN discard_sub(subs, topic) ELSE subs

\* A variant that discards the topic's entry before it issues the protocol call.
do_subscribe_DiscardBeforeCall(topic, qos) ==
    /\ console = "Messaging"
    /\ lastCmd' = Cmd("subscribe", topic, qos)
    /\ IF topic = EmptyTopic
       THEN /\ calls' = <<>>
            /\ UNCHANGED <<subscriptions, lastAccepted>>
       ELSE \E out \in Outcomes :
            /\ calls' = <<Call("subscribe", topic, qos, out)>>
            /\ subscriptions' = (IF out = MQTT_ERR_SUCCESS
                                 THEN discard_sub(subscriptions, topic) \cup {Subscription(topic, qos)}
                                 ELSE discard_sub(subscriptions, topic))
            /\ lastAccepted' = IF out = MQTT_ERR_SUCCESS
                               THEN [lastAccepted EXCEPT ![topic] = qos]
                               ELSE lastAccepted
    /\ prevSubs' = subscriptions
    /\ UNCHANGED <<console, pahoVersion, mqttclient, handlesBuilt, connArgs, loopVars>>

\* do_subscribe: any exception is caught and reported, the loop continues.
do_subscribe(topic, qos) ==
    /\ console = "Messaging"
    /\ lastCmd' = Cmd("subscribe", topic, qos)
    /\ IF topic = EmptyTopic
       THEN /\ calls' = <<>>
            /\ UNCHANGED <<subscriptions, lastAccepted>>
       ELSE \E out \in Outcomes :
            /\ calls' = <<Call("subscribe", topic, qos, out)>>
            /\ subscriptions' = SubscribeRegistry(subscriptions, Subscription(topic, qos), out)
            /\ lastAccepted' = IF out = MQTT_ERR_SUCCESS
                               THEN [lastAccepted EXCEPT ![topic] = qos]
                               ELSE lastAccepted
    /\ prevSubs' = subscriptions
    /\ UNCHANGED <<console, pahoVersion, mqttclient, handlesBuilt, connArgs, loopVars>>

\* A variant that hands an empty topic to the protocol call too.
do_unsubscribe_AnyTopic(topic) ==
    /\ console = "Messaging"
    /\ lastCmd' = Cmd("unsubscribe", topic, 0)
    /\ \E out \in Outcomes :
       /\ calls' = <<Call("unsubscribe", topic, 0, out)>>
       /\ console' = (IF out = RAISED THEN "Crashed" ELSE console)
       /\ subscriptions' = (IF out = RAISED THEN subscriptions
                            ELSE {s \in subscriptions : s.topic # topic \/ out # MQTT_ERR_SUCCESS})
    /\ prevSubs' = subscriptions
    /\ UNCHANGED <<pahoVersion, mqttclient, handlesBuilt, connArgs, loopVars, lastAccepted>>

\* do_unsubscribe: nothing catches an exception of the protocol call; it leaves
\* every cmdloop and ends the program.
do_unsubscribe(topic) ==
    /\ console = "Messaging"
    /\ lastCmd' = Cmd("unsubscribe", topic, 0)
    /\ IF topic = EmptyTopic
       THEN /\ calls' = <<>>
            /\ UNCHANGED <<console, subscriptions>>
       ELSE \E out \in Outcomes :
            /\ calls' = <<Call("unsubscribe", topic, 0, out)>>
            /\ console' = (IF out = RAISED THEN "Crashed" ELSE console)
            /\ subscriptions' = (IF out = RAISED THEN subscriptions
                                 ELSE UnsubscribeRegistry(subscriptions, topic, out))
    /\ prevSubs' = subscriptions
    /\ UNCHANGED <<pahoVersion, mqttclient, handlesBuilt, connArgs, loopVars, lastAccepted>>

\* A variant that iterates the live set: an entry removed meanwhile shifts the
\* iteration past one of the others.
SnapshotOrders_Live(subs) ==
    IF Cardinality(subs) < 2 THEN {f \in [1..Cardinality(subs) -> subs] : TRUE}
    ELSE {f \in [1..Cardinality(subs) - 1 -> subs] :
             \A i, j \in 1..Cardinality(subs) - 1 : f[i] = f[j] => i = j}

\* The orders in which `for s in self._subscriptions.copy()` can visit the snapshot.
SnapshotOrders(subs) ==
    {f \in [1..Cardinality(subs) -> subs] : \A i, j \in 1..Cardinality(subs) : f[i] = f[j] => i = j}

\* SubscriptionHandler.unsubscribe_all over one iteration order, outs[i] being the
\* outcome of the i-th protocol call; a raising call ends the iteration.
RECURSIVE unsubscribe_all(_, _, _)
unsubscribe_all(subs, order, outs) ==
    IF order = <<>> THEN [subs |-> subs, calls |-> <<>>, raised |-> FALSE]
    ELSE LET t == Head(order).topic
             out == Head(outs)
             c == Call("unsubscribe", t, 0, out)
         IN IF out = RAISED
            THEN [subs |-> subs, calls |-> <<c>>, raised |-> TRUE]
            ELSE LET rest == unsubscribe_all(UnsubscribeRegistry(subs, t, out),
                                             Tail(order), Tail(outs))
                 IN [rest EXCEPT !.calls = <<c>> \o @]

\* do_unsubscribe_all: like do_unsubscribe, an exception is not caught.
do_unsubscribe_all ==
    /\ console = "Messaging"
    /\ lastCmd' = Cmd("unsubscribe_all", EmptyTopic, 0)
    /\ \E order \in SnapshotOrders(subscriptions) :
       \E outs \in [1..Len(order) -> Outcomes] :
          LET r == unsubscribe_all(subscriptions, order, outs) IN
          /\ r.raised \/ Len(r.calls) = Len(order)
          /\ \A i \in 1..Len(order) : i > Len(r.calls) => outs[i] = 0
          /\ calls' = r.calls
          /\ subscriptions' = r.subs
          /\ console' = (IF r.raised THEN "Crashed" ELSE console)
    /\ prevSubs' = subscriptions
    /\ UNCHANGED <<pahoVersion, mqttclient, handlesBuilt, connArgs, loopVars, lastAccepted>>

\* --------------------------------------------------------- MessagePublisher
\* The payload argument of a `publish` line: absent or "", a text without
\* placeholder, a text with {seq}, a text with {seq} and another replacement
\* field, or a text that starts with from-url:.
PayloadArgs == {"none", "text", "seq", "seq+field", "from-url"}

\* What urlopen/read/decode do for a from-url: payload: text or undecodable
\* bytes or nothing read, a URLError, or another exception (urlopen raises
\* ValueError for a locator it cannot parse).
FetchOutcomes == {"text", "bytes", "empty", "URLError", "ValueError"}
ParseRaised == "raised"

\* MessagePublisher.parse_msg_input: the payload of the Message it returns.
parse_msg_input(payload, fetch) ==
    IF payload # "from-url" THEN payload
    ELSE CASE fetch = "text" -> "text"
           [] fetch = "bytes" -> "bytes"
           [] fetch = "empty" -> "none"
           [] fetch = "URLError" -> "from-url"
           [] OTHER -> ParseRaised

\* The payload MessagePublisher.publish hands to client.publish(); str.format
\* raises on a replacement field other than seq.
PayloadToSend(payload, seq) ==
    CASE payload = "none" -> Sent("none", 0)
      [] payload = "seq" -> Sent("seq", seq)
      [] payload = "seq+field" -> Unsent
      [] OTHER -> Sent(payload, 0)

\* A variant that advances the counter whatever the result.
NextSeq_Always(seq, rc) == seq + 1

\* if result == mqtt.MQTT_ERR_SUCCESS: self._msg_seq += 1
NextSeq(seq, rc) == IF rc = MQTT_ERR_SUCCESS THEN seq + 1 ELSE seq

\* A variant in which the publisher of the previous session is used again.
PublisherOutsidePublish_Kept ==
    /\ lastPub' = NoPub
    /\ UNCHANGED <<msg_seq, pubsIssued, onlySeqAccepted>>

\* The publisher across a command other than publish: MessagingConsole.__init__
\* builds a new one when do_connect enters Messaging, nothing else touches it.
PublisherOutsidePublish ==
    /\ lastPub' = NoPub
    /\ IF console = "Connection" /\ console' = "Messaging"
       THEN /\ msg_seq' = 1
            /\ pubsIssued' = 0
            /\ onlySeqAccepted' = TRUE
       ELSE UNCHANGED <<msg_seq, pubsIssued, onlySeqAccepted>>

\* Neither the publisher nor the registry looks into a non-empty topic: one
\* topic string stands for all of them here.
PublishTopics == {CHOOSE t \in Topics : TRUE}

\* do_publish: parse_publish (parse_msg_input, then publish) inside a try whose
\* bare except reports any exception; the loop continues.
do_publish(topic, qos, payload, fetch) ==
    /\ console = "Messaging"
    /\ (payload = "from-url") = (fetch # NoFetch)
    /\ lastCmd' = Cmd("publish", topic, qos)
    /\ LET parsed == parse_msg_input(payload, fetch)
           tosend == IF parsed = ParseRaised \/ topic = EmptyTopic THEN Unsent
                     ELSE PayloadToSend(parsed, msg_seq)
       IN IF tosend = Unsent
          THEN /\ calls' = <<>>
               /\ lastPub' = [payload |-> payload, fetch |-> fetch, sent |-> Unsent]
               /\ UNCHANGED <<msg_seq, pubsIssued, onlySeqAccepted>>
          ELSE /\ pubsIssued < MaxPublishes
               /\ \E out \in Outcomes :
                  /\ calls' = <<Call("publish", topic, qos, out)>>
                  /\ msg_seq' = (IF out = RAISED THEN msg_seq ELSE NextSeq(msg_seq, out))
                  /\ pubsIssued' = pubsIssued + 1
                  /\ onlySeqAccepted' = (onlySeqAccepted /\ tosend.kind = "seq"
                                         /\ out = MQTT_ERR_SUCCESS)
                  /\ lastPub' = [payload |-> payload, fetch |-> fetch, sent |-> tosend]
    /\ prevSubs' = subscriptions
    /\ UNCHANGED <<console, pahoVersion, mqttclient, handlesBuilt, connArgs, loopVars,
                   subscriptions, lastAccepted>>

\* The on_publish callback, run by the loop thread for a message that was sent:
\* it writes a log line.
on_publish ==
    /\ loopRunning
    /\ pubsIssued > 0
    /\ lastCmd' = Cmd("on_publish", EmptyTopic, 0)
    /\ calls' = <<>>
    /\ prevSubs' = subscriptions
    /\ lastPub' = NoPub
    /\ UNCHANGED <<console, pahoVersion, mqttclient, handlesBuilt, connArgs, loopVars,
                   subscriptions, lastAccepted, msg_seq, pubsIssued, onlySeqAccepted>>

\* ---------------------------------------------------------- numeric fields
\* The argument of a port/keepalive/pacing line is a string over Chars.
Chars == {"0", "7", "-", "."}
Digits == {"0", "7"}
Args == UNION {[1..n -> Chars] : n \in 0..MaxArgLen}

DigitVal(c) == IF c = "7" THEN 7 ELSE 0

\* str.isdigit()
isdigit(s) == s # <<>> /\ \A i \in 1..Len(s) : s[i] \in Digits

\* int() of a string of digits
RECURSIVE int(_)
int(s) == IF s = <<>> THEN 0 ELSE int(SubSeq(s, 1, Len(s) - 1)) * 10 + DigitVal(s[Len(s)])

\* The part of a float literal after its sign.
Unsigned(s) == IF s # <<>> /\ s[1] = "-" THEN Tail(s) ELSE s
DotAt(s) == {i \in 1..Len(s) : s[i] = "."}

\* isfloat: float(value) does not raise ValueError.  Over Chars that is an
\* optional sign, then digits with at most one point and at least one digit.
isfloat(s) ==
    LET u == Unsigned(s) IN
    /\ \A i \in 1..Len(u) : u[i] \in Digits \cup {"."}
    /\ Cardinality(DotAt(u)) <= 1
    /\ \E i \in 1..Len(u) : u[i] \in Digits

\* Pacing values are kept as integers, in units of 1/Scale second.
Scale == 10 ^ MaxArgLen

\* float() of a string isfloat accepts; -0.0 equals 0.0.
float(s) ==
    LET u == Unsigned(s)
        d == IF DotAt(u) = {} THEN Len(u) + 1 ELSE CHOOSE i \in DotAt(u) : TRUE
        whole == SubSeq(u, 1, d - 1)
        frac == SubSeq(u, d + 1, Len(u))
        mag == int(whole) * Scale + int(frac) * 10 ^ (MaxArgLen - Len(frac))
    IN IF u = s THEN mag ELSE 0 - mag

\* ConnectionArgs.port and ConnectionArgs.keepalive setters.
PortSetter(old, default, value) ==
    IF value = <<>> THEN [value |-> default, diag |-> FALSE]
    ELSE IF ~isdigit(value) THEN [value |-> old, diag |-> TRUE]
    ELSE [value |-> int(value), diag |-> FALSE]

\* ConsoleContext.pacing setter.
PacingSetter(old, value) ==
    IF value = <<>> THEN [value |-> DefaultPacing, diag |-> FALSE]
    ELSE IF ~isfloat(value) \/ float(value) < 0 THEN [value |-> old, diag |-> TRUE]
    ELSE [value |-> float(value), diag |-> FALSE]

do_port(arg) ==
    /\ console = "Connection"
    /\ LET r == PortSetter(port, DefaultPort, arg) IN port' = r.value /\ diag' = r.diag
    /\ lastArg' = arg
    /\ prevNum' = port
    /\ lastCmd' = Cmd("port", EmptyTopic, 0)
    /\ calls' = <<>>
    /\ UNCHANGED <<console, pahoVersion, mqttclient, handlesBuilt, connArgs, loopVars,
                   subVars, keepalive, pacing>>

do_keepalive(arg) ==
    /\ console = "Connection"
    /\ LET r == PortSetter(keepalive, DefaultKeepalive, arg) IN keepalive' = r.value /\ diag' = r.diag
    /\ lastArg' = arg
    /\ prevNum' = keepalive
    /\ lastCmd' = Cmd("keepalive", EmptyTopic, 0)
    /\ calls' = <<>>
    /\ UNCHANGED <<console, pahoVersion, mqttclient, handlesBuilt, connArgs, loopVars,
                   subVars, port, pacing>>

\* do_pacing: a blank argument prints the current value.
do_pacing(arg) ==
    /\ console \in {"Top", "Connection", "Messaging"}
    /\ IF arg = <<>> THEN pacing' = pacing /\ diag' = FALSE
       ELSE LET r == PacingSetter(pacing, arg) IN pacing' = r.value /\ diag' = r.diag
    /\ lastArg' = arg
    /\ prevNum' = pacing
    /\ lastCmd' = Cmd("pacing", EmptyTopic, 0)
    /\ calls' = <<>>
    /\ UNCHANGED <<console, pahoVersion, mqttclient, handlesBuilt, connArgs, loopVars,
                   subVars, port, keepalive>>

\* ------------------------------------------------------------ settable fields
\* The argument of a setting line, as cmd.Cmd.parseline hands it over (stripped):
\* Blank, or one token.
Blank == <<>>
BoolArgs == {Blank, <<"ON">>, <<"false">>, <<"maybe">>}
EnumArgs == {Blank, <<"1">>, <<"3">>, <<"9">>, <<"x">>}
NameArgs == {Blank, <<"name">>}
TransportArgs == {Blank, <<"websockets">>, <<"tcp">>, <<"udp">>}
VerbosityArgs == {Blank, <<"low">>, <<"m">>, <<"x">>}
NumberArgs == {Blank, <<"7">>, <<"-">>}

\* The outcome of a setter: the value it leaves in the field, whether it printed
\* an "Invalid ..." diagnostic, and what else it printed.
Set(value, d, n) == [value |-> value, diag |-> d, notice |-> n]

TrueTokens == {"true", "t", "yes", "y", "on", "enable", "1"}
FalseTokens == {"false", "f", "no", "n", "off", "disable", "0"}

\* s.strip().lower(), over the tokens of BoolArgs
Lower(tok) == IF tok = "ON" THEN "on" ELSE tok

\* str2bool(s, default): an empty string gives the default without a word.
str2bool(s, default) ==
    IF s = Blank THEN Set(default, FALSE, {})
    ELSE IF Lower(s[1]) \in TrueTokens THEN Set(TRUE, FALSE, {})
    ELSE IF Lower(s[1]) \in FalseTokens THEN Set(FALSE, FALSE, {})
    ELSE Set(default, TRUE, {})

\* A variant that leaves the flag alone on a blank argument.
CleanSessionSetter_NoToggle(old, value) ==
    LET r == str2bool(value, old)
    IN [r EXCEPT !.notice = IF r.value THEN {} ELSE {"clean_session=False"}]

\* ClientArgs.clean_session setter: toggle, or str2bool; then the warning.
CleanSessionSetter(old, value) ==
    LET r == IF value = Blank THEN Set(~old, FALSE, {}) ELSE str2bool(value, old)
    IN [r EXCEPT !.notice = IF r.value THEN {} ELSE {"clean_session=False"}]

\* A variant that toggles on a blank argument.
TlsInsecureSetter_Toggle(old, value) ==
    LET r == IF value = Blank THEN Set(~old, FALSE, {}) ELSE str2bool(value, old)
    IN [r EXCEPT !.notice = IF r.value THEN {"tls_insecure=True"} ELSE {}]

\* TLSArgs.tls_insecure setter: the argument of a command is always a str.
TlsInsecureSetter(old, value) ==
    LET r == str2bool(value, old)
    IN [r EXCEPT !.notice = IF r.value THEN {"tls_insecure=True"} ELSE {}]

\* do_logging: str2bool of a non-blank argument, else toggle.
LoggingSetter(old, arg) ==
    IF arg # Blank THEN str2bool(arg, old) ELSE Set(~old, FALSE, {})

\* int(value) of a token; a token outside the domain raises ValueError.
Numerals ==
    [tok \in {"1", "2", "3", "4", "9"} |->
        CASE tok = "1" -> 1 [] tok = "2" -> 2 [] tok = "3" -> 3 [] tok = "4" -> 4 [] OTHER -> 9]

mqtt_protocol_versions == {3, 4}
ssl_cert_requirements == {0, 1, 2}
ssl_protocol_versions == {2, 3, 4, 5}
mqtt_transports == {"tcp", "websockets"}
prompt_verbosity_levels == {"N", "L", "M", "H"}

\* A variant that stores every number it can parse.
EnumSetter_AnyNumber(old, default, domain, value) ==
    IF value = Blank THEN Set(default, FALSE, {})
    ELSE IF value[1] \in DOMAIN Numerals THEN Set(Numerals[value[1]], FALSE, {})
    ELSE Set(old, TRUE, {})

\* The protocol, cert_reqs and tls_version setters.  A str is never a key of
\* the domain, so a command's argument always goes through int().
EnumSetter(old, default, domain, value) ==
    IF value = Blank THEN Set(default, FALSE, {})
    ELSE IF value[1] \in DOMAIN Numerals /\ Numerals[value[1]] \in domain
         THEN Set(Numerals[value[1]], FALSE, {})
    ELSE Set(old, TRUE, {})

\* A variant with a default transport for a blank argument.
TransportSetter_BlankDefault(old, value) ==
    IF value = Blank THEN Set("tcp", FALSE, {})
    ELSE IF value[1] \notin mqtt_transports THEN Set(old, TRUE, {})
    ELSE Set(value[1], FALSE, IF value[1] = "websockets" THEN {"websockets"} ELSE {})

\* ClientArgs.transport setter: the empty string is not a transport.
TransportSetter(old, value) ==
    IF value = Blank \/ value[1] \notin mqtt_transports THEN Set(old, TRUE, {})
    ELSE Set(value[1], FALSE, IF value[1] = "websockets" THEN {"websockets"} ELSE {})

\* client_id and host setters: value or default
OrDefault(default, value) == Set(IF value = Blank THEN default ELSE value[1], FALSE, {})

\* TLSArgs.ciphers setter
CiphersSetter(value) == Set(IF value = Blank THEN "None" ELSE value[1], FALSE, {})

\* str(value)[0].upper(), over the tokens of VerbosityArgs
Initial(tok) == IF tok = "low" THEN "L" ELSE IF tok = "m" THEN "M" ELSE "X"

\* ConsoleContext.prompt_verbosity setter
PromptVerbositySetter(old, value) ==
    IF value = Blank THEN Set("H", FALSE, {})
    ELSE IF Initial(value[1]) \notin prompt_verbosity_levels THEN Set(old, TRUE, {})
    ELSE Set(Initial(value[1]), FALSE, {})

\* do_logging_indent: a blank argument prints the current value, any other goes
\* to the logging_indent setter (the shape of the port setter).
LoggingIndentCommand(old, arg) ==
    IF arg = Blank THEN Set(old, FALSE, {"current"})
    ELSE LET r == PortSetter(old, DefaultLoggingIndent, arg) IN Set(r.value, r.diag, {})

\* What a setting line does besides storing its field: no protocol call, no
\* change of console; found is the value it met in the field, r its outcome.
SettingLine(name, arg, found, r) ==
    /\ lastCmd' = Cmd(name, EmptyTopic, 0)
    /\ calls' = <<>>
    /\ lastArg' = arg
    /\ prevNum' = found
    /\ diag' = r.diag
    /\ notice' = r.notice
    /\ UNCHANGED <<console, pahoVersion, mqttclient, handlesBuilt, connArgs, loopVars,
                   subVars, port, keepalive, pacing>>

\* A variant in which every console has the commands of MainConsole.
HasIdentityCommands_Every(c) == c \in {"Top", "Connection", "Messaging"}

\* do_client_id, do_clean_session, do_protocol and do_transport are methods of
\* MainConsole; ConnectionConsole and MessagingConsole derive from RootConsole.
HasIdentityCommands(c) == c = "Top"

do_client_id(arg) ==
    /\ HasIdentityCommands(console)
    /\ LET r == OrDefault("default", arg) IN
       /\ client_args' = [client_args EXCEPT !.client_id = r.value]
       /\ SettingLine("client_id", arg, client_args.client_id, r)
    /\ UNCHANGED <<host, tls_args, logging_enabled, logging_indent, prompt_verbosity>>

do_clean_session(arg) ==
    /\ HasIdentityCommands(console)
    /\ LET r == CleanSessionSetter(client_args.clean_session, arg) IN
       /\ client_args' = [client_args EXCEPT !.clean_session = r.value]
       /\ SettingLine("clean_session", arg, client_args.clean_session, r)
    /\ UNCHANGED <<host, tls_args, logging_enabled, logging_indent, prompt_verbosity>>

do_protocol(arg) ==
    /\ HasIdentityCommands(console)
    /\ LET r == EnumSetter(client_args.protocol, DefaultProtocol, mqtt_protocol_versions, arg) IN
       /\ client_args' = [client_args EXCEPT !.protocol = r.value]
       /\ SettingLine("protocol", arg, client_args.protocol, r)
    /\ UNCHANGED <<host, tls_args, logging_enabled, logging_indent, prompt_verbosity>>

do_transport(arg) ==
    /\ HasIdentityCommands(console)
    /\ LET r == TransportSetter(client_args.transport, arg) IN
       /\ client_args' = [client_args EXCEPT !.transport = r.value]
       /\ SettingLine("transport", arg, client_args.transport, r)
    /\ UNCHANGED <<host, tls_args, logging_enabled, logging_indent, prompt_verbosity>>

\* ConnectionConsole
do_host(arg) ==
    /\ console = "Connection"
    /\ LET r == OrDefault("localhost", arg) IN
       /\ host' = r.value
       /\ SettingLine("host", arg, host, r)
    /\ UNCHANGED <<client_args, tls_args, logging_enabled, logging_indent, prompt_verbosity>>

do_cert_reqs(arg) ==
    /\ console = "Connection"
    /\ LET r == EnumSetter(tls_args.cert_reqs, DefaultCertReqs, ssl_cert_requirements, arg) IN
       /\ tls_args' = [tls_args EXCEPT !.cert_reqs = r.value]
       /\ SettingLine("cert_reqs", arg, tls_args.cert_reqs, r)
    /\ UNCHANGED <<client_args, host, logging_enabled, logging_indent, prompt_verbosity>>

do_tls_version(arg) ==
    /\ console = "Connection"
    /\ LET r == EnumSetter(tls_args.tls_version, DefaultTlsVersion, ssl_protocol_versions, arg) IN
       /\ tls_args' = [tls_args EXCEPT !.tls_version = r.value]
       /\ SettingLine("tls_version", arg, tls_args.tls_version, r)
    /\ UNCHANGED <<client_args, host, logging_enabled, logging_indent, prompt_verbosity>>

do_ciphers(arg) ==
    /\ console = "Connection"
    /\ LET r == CiphersSetter(arg) IN
       /\ tls_args' = [tls_args EXCEPT !.ciphers = r.value]
       /\ SettingLine("ciphers", arg, tls_args.ciphers, r)
    /\ UNCHANGED <<client_args, host, logging_enabled, logging_indent, prompt_verbosity>>

do_tls_insecure(arg) ==
    /\ console = "Connection"
    /\ LET r == TlsInsecureSetter(tls_args.tls_insecure, arg) IN
       /\ tls_args' = [tls_args EXCEPT !.tls_insecure = r.value]
       /\ SettingLine("tls_insecure", arg, tls_args.tls_insecure, r)
    /\ UNCHANGED <<client_args, host, logging_enabled, logging_indent, prompt_verbosity>>

\* RootConsole: in every console
do_logging(arg) ==
    /\ console \in {"Top", "Connection", "Messaging"}
    /\ LET r == LoggingSetter(logging_enabled, arg) IN
       /\ logging_enabled' = r.value
       /\ SettingLine("logging", arg, logging_enabled, r)
    /\ UNCHANGED <<client_args, host, tls_args, logging_indent, prompt_verbosity>>

do_logging_indent(arg) ==
    /\ console \in {"Top", "Connection", "Messaging"}
    /\ LET r == LoggingIndentCommand(logging_indent, arg) IN
       /\ logging_indent' = r.value
       /\ SettingLine("logging_indent", arg, logging_indent, r)
    /\ UNCHANGED <<client_args, host, tls_args, logging_enabled, prompt_verbosity>>

do_prompt_verbosity(arg) ==
    /\ console \in {"Top", "Connection", "Messaging"}
    /\ LET r == PromptVerbositySetter(prompt_verbosity, arg) IN
       /\ prompt_verbosity' = r.value
       /\ SettingLine("prompt_verbosity", arg, prompt_verbosity, r)
    /\ UNCHANGED <<client_args, host, tls_args, logging_enabled, logging_indent>>

\* ------------------------------------------- RootConsole: record and playback
\* A command line is the sequence of its words; <<>> is the empty line.
\* The operator starts and stops recording and playback, leaves consoles and
\* presses Enter on an empty line; the script file holds the session's
\* commands, among them a `will` whose topic is the word playback, and blank
\* lines.
OperatorLines ==
    {<<>>, <<"record", "rec">>, <<"stop_recording">>, <<"playback", "script">>, <<"exit">>}
ScriptLines ==
    {<<>>, <<"connection">>, <<"connect">>, <<"exit">>, <<"will", "playback", "m">>}
Scripts == UNION {[1..n -> ScriptLines] : n \in 0..MaxScriptLen}

\* cmd.Cmd.parseline: the command word of a line
Name(line) == IF line = <<>> THEN "" ELSE line[1]

\* `substr in line.lower()`, at the granularity of words
Mentions(line, word) == \E i \in 1..Len(line) : line[i] = word

\* A variant that writes every non-empty line.
precmd_writes_All(rf, line) == rf # NotOpen /\ line # <<>>

\* RootConsole.precmd: the line is written to the recording file.
precmd_writes(rf, line) ==
    /\ rf # NotOpen
    /\ line # <<>>
    /\ ~\E word \in {"playback", "stop_recording"} : Mentions(line, word)

\* A variant that consults the playback file after a terminating dispatch too.
postcmd_reads_Always(stop) == TRUE

\* RootConsole.postcmd: `if not stop: self._playback_file_cmd()`
postcmd_reads(stop) == ~stop

\* A variant that keeps the file open at a blank line and queues nothing.
playback_file_cmd_SkipBlank(st, c) ==
    LET called == [st EXCEPT !.consults = Append(@, c)] IN
    IF st.pb = 0 THEN called
    ELSE IF st.pb > Len(script) THEN [called EXCEPT !.pb = 0]
    ELSE IF script[st.pb] = <<>> THEN [called EXCEPT !.pb = @ + 1]
    ELSE [called EXCEPT !.pb = @ + 1, !.queue[c] = Append(@, script[st.pb])]

\* A variant that queues the next two lines of the file at once.
playback_file_cmd_TwoLines(st, c) ==
    LET called == [st EXCEPT !.consults = Append(@, c)] IN
    IF st.pb = 0 THEN called
    ELSE IF st.pb > Len(script) \/ script[st.pb] = <<>> THEN [called EXCEPT !.pb = 0]
    ELSE IF st.pb + 1 > Len(script) \/ script[st.pb + 1] = <<>>
         THEN [called EXCEPT !.pb = @ + 1, !.queue[c] = Append(@, script[st.pb])]
    ELSE [called EXCEPT !.pb = @ + 2,
                        !.queue[c] = @ \o <<script[st.pb], script[st.pb + 1]>>]

\* RootConsole._playback_file_cmd, called by console c; st holds the playback
\* position, the queues and the callers so far.
playback_file_cmd(st, c) ==
    LET called == [st EXCEPT !.consults = Append(@, c)] IN
    IF st.pb = 0 THEN called
    ELSE IF st.pb > Len(script) \/ script[st.pb] = <<>> THEN [called EXCEPT !.pb = 0]
    ELSE [called EXCEPT !.pb = @ + 1, !.queue[c] = Append(@, script[st.pb])]

\* The commands console c has a do_ method for, among the words of the lines.
Handled(c, name) ==
    \/ name \in {"exit", "record", "stop_recording", "playback"}
    \/ c = "Top" /\ name = "connection"
    \/ c = "Connection" /\ name = "connect"
    \/ c = "Connection" /\ name = "will"

\* A handler that touches neither the consoles nor the protocol handle:
\* do_record, do_stop_recording, do_playback, cmd.Cmd.default for a word the
\* console has no method for, and emptyline with nothing to repeat.
NoSessionChange(name) ==
    /\ lastCmd' = Cmd(name, EmptyTopic, 0)
    /\ calls' = <<>>
    /\ prevSubs' = subscriptions
    /\ UNCHANGED <<console, pahoVersion, mqttclient, handlesBuilt, connArgs, loopVars,
                   subscriptions, lastAccepted>>

\* cmd.Cmd.onecmd on a non-repeating line: the handler of its command word.
Handler(line) ==
    \/ Name(line) = "connection" /\ console = "Top" /\ do_connection /\ PublisherOutsidePublish
    \/ Name(line) = "connect" /\ console = "Connection" /\ do_connect /\ PublisherOutsidePublish
    \/ Name(line) = "exit" /\ console = "Top" /\ TopExit("exit") /\ PublisherOutsidePublish
    \/ Name(line) = "exit" /\ console = "Connection" /\ ConnectionExit("exit")
                           /\ PublisherOutsidePublish
    \/ Name(line) = "exit" /\ console = "Messaging" /\ MessagingExit("exit")
                           /\ PublisherOutsidePublish
    \/ Name(line) = "will" /\ console = "Connection" /\ do_will("topic")
                           /\ PublisherOutsidePublish
    \/ Name(line) \in {"record", "stop_recording", "playback"}
                           /\ NoSessionChange(Name(line)) /\ PublisherOutsidePublish
    \/ ~Handled(console, Name(line)) /\ NoSessionChange("*** Unknown syntax")
                           /\ PublisherOutsidePublish

\* One pass of cmd.Cmd.cmdloop's body in the active console: take the queued
\* line or else the typed one, precmd, onecmd (an empty line repeats lastcmd),
\* postcmd; then, when the handler started a nested console, its preloop, and when
\* the dispatch ended this console's loop, the rest of the parent's handler and
\* the parent's postcmd, or at the top the cleanup of __main__.
Pass(typed) ==
    /\ console \in Consoles
    /\ LET queued == cmdqueue[console] # <<>>
           line == IF queued THEN Head(cmdqueue[console]) ELSE typed
           eff == IF line = <<>> THEN lastcmd[console] ELSE line
           writes == precmd_writes(recording_file, line)
           stop == Name(eff) = "exit"
       IN /\ Handler(eff)
          /\ lastLine' = line
          /\ fromPlayback' = queued
          /\ wasRecording' = recording_file
          /\ appended' = writes
          /\ recording_file' =
                (IF Name(eff) = "record" /\ Len(eff) > 1 THEN eff[2]
                 ELSE IF Name(eff) = "stop_recording" \/ console' = "Exited" THEN NotOpen
                 ELSE recording_file)
          /\ lastcmd' = (IF console' \in {"Connection", "Messaging"} /\ ~stop /\ console' # console
                         THEN [lastcmd EXCEPT ![console] = eff, ![console'] = <<>>]
                         ELSE [lastcmd EXCEPT ![console] = eff])
          /\ LET st0 == [pb |-> IF Name(eff) = "playback" /\ Len(eff) > 1 THEN 1
                                ELSE playback_file,
                         queue |-> [cmdqueue EXCEPT ![console] = IF queued THEN Tail(@) ELSE @],
                         consults |-> <<>>]
                 own == IF postcmd_reads(stop) THEN playback_file_cmd(st0, console) ELSE st0
                 st1 == IF console' = console THEN own
                        ELSE IF ~stop
                        THEN playback_file_cmd([st0 EXCEPT !.queue[console'] = <<>>], console')
                        ELSE IF console' = "Exited" THEN [own EXCEPT !.pb = 0]
                        ELSE playback_file_cmd([own EXCEPT !.queue[console] = <<>>], console')
             IN /\ playback_file' = st1.pb
                /\ cmdqueue' = st1.queue
                /\ consults' = st1.consults
    /\ UNCHANGED <<script, setVars, fieldVars, handleVars>>

\* A pass with the account of the run: the lines taken so far, the lines
\* written to the recording file and the lines played from the playback file.
Dispatch(typed) ==
    /\ linesTaken < MaxSteps
    /\ Pass(typed)
    /\ LET queued == cmdqueue[console] # <<>>
           line == IF queued THEN Head(cmdqueue[console]) ELSE typed
           eff == IF line = <<>> THEN lastcmd[console] ELSE line
       IN /\ linesTaken' = linesTaken + 1
          /\ recorded' = (IF precmd_writes(recording_file, line) THEN Append(recorded, line)
                          ELSE recorded)
          /\ played' = (IF Name(eff) = "playback" /\ Len(eff) > 1 THEN 0
                         ELSE IF queued THEN played + 1 ELSE played)

\* ---------------------------------------------------------------- operator
\* An operator interrupt (KeyboardInterrupt) while a console waits for input:
\* no handler catches it, every nested cmdloop and the program end.
Interrupt ==
    /\ console \in {"Top", "Connection", "Messaging"}
    /\ console' = "Crashed"
    /\ lastCmd' = Cmd("interrupt", EmptyTopic, 0)
    /\ calls' = <<>>
    /\ prevSubs' = subscriptions
    /\ UNCHANGED <<pahoVersion, mqttclient, handlesBuilt, connArgs, loopVars,
                   subscriptions, lastAccepted>>

ExitCommands == {"exit", "quit", "EOF"}

\* What a handler other than publish, port, keepalive and pacing leaves alone,
\* with no recording, no playback and the dispatch bookkeeping left out.
Elsewhere ==
    /\ PublisherOutsidePublish
    /\ UNCHANGED setVars
    /\ UNCHANGED scriptVars
    /\ UNCHANGED replayVars
    /\ UNCHANGED fileVars
    /\ UNCHANGED fieldVars
    /\ UNCHANGED handleVars

\* The commands of MessagingConsole that use the subscription registry, with the
\* topics the operator types drawn from T.
RegistryCommands(T) ==
    \/ \E topic \in T \cup {EmptyTopic}, qos \in QoS : do_subscribe(topic, qos)
    \/ \E topic \in T \cup {EmptyTopic} : do_unsubscribe(topic)
    \/ do_unsubscribe_all

\* The whole program, from the start of MainConsole.
Next ==
    \/ do_connection /\ Elsewhere
    \/ \E name \in ExitCommands : TopExit(name) /\ Elsewhere
    \/ \E arg \in {"blank", "topic"} : do_will(arg) /\ Elsewhere
    \/ \E b \in BOOLEAN : do_username(b) /\ Elsewhere
    \/ \E b \in BOOLEAN : do_ca_certs_filepath(b) /\ Elsewhere
    \/ do_connect /\ Elsewhere
    \/ \E name \in ExitCommands : ConnectionExit(name) /\ Elsewhere
    \/ \E name \in ExitCommands \cup {"disconnect"} : MessagingExit(name) /\ Elsewhere
    \/ RegistryCommands(ConsoleTopics) /\ Elsewhere
    \/ Interrupt /\ Elsewhere

Spec == Init /\ [][Next]_vars

\* One Messaging session, from the state in which the first `connect` of a run
\* (default connection arguments, result code success) has entered it.
InitRegistry ==
    /\ console = "Messaging"
    /\ pahoVersion \in PahoVersions
    /\ mqttclient = 1
    /\ handlesBuilt = 1
    /\ will = "None"
    /\ username = FALSE
    /\ ca_certs = FALSE
    /\ loopRunning = TRUE
    /\ loopStarts = 1
    /\ loopStops = 0
    /\ disconnects = 0
    /\ subscriptions = {}
    /\ prevSubs = {}
    /\ lastAccepted = NoneAccepted
    /\ lastCmd = Cmd("connect", EmptyTopic, 0)
    /\ calls = <<Call(CredentialStep(FALSE, pahoVersion), EmptyTopic, 0, 0),
                 Call("connect", EmptyTopic, 0, MQTT_ERR_SUCCESS)>> \o EnterCalls
    /\ PublisherInit
    /\ SettingsInit
    /\ ScriptInit
    /\ ReplayInit
    /\ FilesInit
    /\ FieldsInit
    /\ HandleInit

NextRegistry ==
    \/ RegistryCommands(Topics) /\ Elsewhere
    \/ \E name \in ExitCommands \cup {"disconnect"} : MessagingExit(name) /\ Elsewhere
    \/ Interrupt /\ Elsewhere

SpecRegistry == InitRegistry /\ [][NextRegistry]_vars

\* The publish lines the operator types, with the topics drawn from T.
PublishCommands(T) ==
    \E topic \in T \cup {EmptyTopic}, qos \in QoS :
       \/ \E payload \in PayloadArgs \ {"from-url"} : do_publish(topic, qos, payload, NoFetch)
       \/ \E fetch \in FetchOutcomes : do_publish(topic, qos, "from-url", fetch)

\* One Messaging session with its publisher, from the same state.
NextPublish ==
    \/ PublishCommands(PublishTopics) /\ UNCHANGED <<setVars, scriptVars, replayVars, fileVars, fieldVars, handleVars>>
    \/ on_publish /\ UNCHANGED <<setVars, scriptVars, replayVars, fileVars, fieldVars, handleVars>>
    \/ RegistryCommands(PublishTopics) /\ Elsewhere
    \/ \E name \in ExitCommands \cup {"disconnect"} : MessagingExit(name) /\ Elsewhere
    \/ Interrupt /\ Elsewhere

SpecPublish == InitRegistry /\ [][NextPublish]_vars

\* The publishers of successive Messaging sessions, from a state in which a
\* Messaging session has ended and ConnectionConsole reads the next line: the
\* publisher of that session is left with whatever its counter had reached, and
\* the loop counters count from this state.
InitSeq ==
    /\ console = "Connection"
    /\ pahoVersion \in PahoVersions
    /\ mqttclient = 1
    /\ handlesBuilt = 1
    /\ will = "None"
    /\ username = FALSE
    /\ ca_certs = FALSE
    /\ loopRunning = FALSE
    /\ loopStarts = 0
    /\ loopStops = 0
    /\ disconnects = 0
    /\ subscriptions = {}
    /\ prevSubs = {}
    /\ lastAccepted = NoneAccepted
    /\ lastCmd = Cmd("exit", EmptyTopic, 0)
    /\ calls = CleanupCalls
    /\ msg_seq \in 1..(MaxPublishes + 1)
    /\ pubsIssued = MaxPublishes
    /\ onlySeqAccepted \in BOOLEAN
    /\ lastPub = NoPub
    /\ SettingsInit
    /\ ScriptInit
    /\ ReplayInit
    /\ FilesInit
    /\ FieldsInit
    /\ HandleInit

NextSeqSessions ==
    \/ PublishCommands(PublishTopics)
          /\ UNCHANGED <<setVars, scriptVars, replayVars, fileVars, fieldVars, handleVars>>
    \/ do_connect /\ Elsewhere
    \/ \E name \in ExitCommands \cup {"disconnect"} : MessagingExit(name) /\ Elsewhere

SpecSeq == InitSeq /\ [][NextSeqSessions]_vars

\* The numeric fields, from the state in which the first `connection` of a run
\* has entered ConnectionConsole.
InitSettings ==
    /\ console = "Connection"
    /\ pahoVersion \in PahoVersions
    /\ mqttclient = 1
    /\ handlesBuilt = 1
    /\ will = "None"
    /\ username = FALSE
    /\ ca_certs = FALSE
    /\ loopRunning = FALSE
    /\ loopStarts = 0
    /\ loopStops = 0
    /\ disconnects = 0
    /\ subscriptions = {}
    /\ prevSubs = {}
    /\ lastAccepted = NoneAccepted
    /\ lastCmd = Cmd("connection", EmptyTopic, 0)
    /\ calls = <<>>
    /\ PublisherInit
    /\ SettingsInit
    /\ ScriptInit
    /\ ReplayInit
    /\ FilesInit
    /\ FieldsInit
    /\ HandleInit

NextSettings ==
    \/ \E arg \in Args : do_port(arg) /\ PublisherOutsidePublish /\ UNCHANGED <<scriptVars, replayVars, fileVars, fieldVars, handleVars>>
    \/ \E arg \in Args : do_keepalive(arg) /\ PublisherOutsidePublish /\ UNCHANGED <<scriptVars, replayVars, fileVars, fieldVars, handleVars>>
    \/ \E arg \in Args : do_pacing(arg) /\ PublisherOutsidePublish /\ UNCHANGED <<scriptVars, replayVars, fileVars, fieldVars, handleVars>>

SpecSettings == InitSettings /\ [][NextSettings]_vars

\* The program started without an argument, next to a script file whose
\* lines are any of Scripts; the dispatch layer never looks at the version of
\* the protocol library, which is fixed here.
InitScript ==
    /\ console = "Top"
    /\ pahoVersion = "1.4+"
    /\ mqttclient = NoHandle
    /\ handlesBuilt = 0
    /\ will = "None"
    /\ username = FALSE
    /\ ca_certs = FALSE
    /\ loopRunning = FALSE
    /\ loopStarts = 0
    /\ loopStops = 0
    /\ disconnects = 0
    /\ subscriptions = {}
    /\ prevSubs = {}
    /\ lastAccepted = NoneAccepted
    /\ lastCmd = Cmd("none", EmptyTopic, 0)
    /\ calls = <<>>
    /\ PublisherInit
    /\ SettingsInit
    /\ cmdqueue = [c \in Consoles |-> <<>>]
    /\ lastcmd = [c \in Consoles |-> <<>>]
    /\ recording_file = NotOpen
    /\ playback_file = 0
    /\ script \in Scripts
    /\ recorded = <<>>
    /\ linesTaken = 0
    /\ lastLine = <<>>
    /\ fromPlayback = FALSE
    /\ wasRecording = NotOpen
    /\ appended = FALSE
    /\ consults = <<>>
    /\ played = 0
    /\ ReplayInit
    /\ FilesInit
    /\ FieldsInit
    /\ HandleInit

NextScript == \E typed \in OperatorLines : Dispatch(typed) /\ UNCHANGED <<replayVars, fileVars>>

SpecScript == InitScript /\ [][NextScript]_vars

\* The program started with a command-line argument: __main__ puts
\* `playback <argument>` in MainConsole's queue before cmdloop(). The script
\* file may hold `playback` lines too.
ArgLine == <<"playback", "script">>
ArgScripts == UNION {[1..n -> ScriptLines \cup {ArgLine}] : n \in 0..MaxScriptLen}
InitArg ==
    /\ console = "Top"
    /\ pahoVersion = "1.4+"
    /\ mqttclient = NoHandle
    /\ handlesBuilt = 0
    /\ will = "None"
    /\ username = FALSE
    /\ ca_certs = FALSE
    /\ loopRunning = FALSE
    /\ loopStarts = 0
    /\ loopStops = 0
    /\ disconnects = 0
    /\ subscriptions = {}
    /\ prevSubs = {}
    /\ lastAccepted = NoneAccepted
    /\ lastCmd = Cmd("none", EmptyTopic, 0)
    /\ calls = <<>>
    /\ PublisherInit
    /\ SettingsInit
    /\ cmdqueue = [c \in Consoles |-> IF c = "Top" THEN <<ArgLine>> ELSE <<>>]
    /\ lastcmd = [c \in Consoles |-> <<>>]
    /\ recording_file = NotOpen
    /\ playback_file = 0
    /\ script \in ArgScripts
    /\ recorded = <<>>
    /\ linesTaken = 0
    /\ lastLine = <<>>
    /\ fromPlayback = FALSE
    /\ wasRecording = NotOpen
    /\ appended = FALSE
    /\ consults = <<>>
    /\ played = 0
    /\ ReplayInit
    /\ FilesInit
    /\ FieldsInit
    /\ HandleInit

SpecArg == InitArg /\ [][NextScript]_vars

\* The files of a pass. do_record and do_playback bind the file that open()
\* returned to the context attribute, whatever the attribute held;
\* close_recording_file (do_stop_recording, the cleanup of __main__) and
\* close_playback_file (_playback_file_cmd at the end of the file or a blank
\* line, the cleanup of __main__) close the file the attribute holds and set
\* the attribute to None.
FilesTracked ==
    LET eff == lastcmd'[console]
        opensRecording == Name(eff) = "record" /\ Len(eff) > 1
        opensPlayback == Name(eff) = "playback" /\ Len(eff) > 1
        closesRecording == /\ ~opensRecording
                           /\ recording_file # NotOpen
                           /\ recording_file' = NotOpen
        closesPlayback == /\ opensPlayback \/ playback_file # 0
                          /\ playback_file' = 0
        Count(b) == IF b THEN 1 ELSE 0
    IN /\ filesOpened' = filesOpened + Count(opensRecording) + Count(opensPlayback)
       /\ filesClosed' = filesClosed + Count(closesRecording) + Count(closesPlayback)

\* The program started with the argument, with the files it opens and closes.
NextFiles ==
    \E typed \in OperatorLines : Dispatch(typed) /\ FilesTracked /\ UNCHANGED replayVars

SpecFiles == InitArg /\ [][NextFiles]_vars

\* Playback on its own: the program started with the argument, next to a
\* script whose lines MainConsole handles without a protocol handle. Of the
\* account of the run only the number of passes is kept, modulo MaxSteps + 1;
\* a pass that can be taken is taken.
LoopLines == {<<>>, <<"exit">>, <<"will", "playback", "m">>, ArgLine}
LoopScripts == UNION {[1..n -> LoopLines] : n \in 0..MaxScriptLen}
InitLoop ==
    /\ console = "Top"
    /\ pahoVersion = "1.4+"
    /\ mqttclient = NoHandle
    /\ handlesBuilt = 0
    /\ will = "None"
    /\ username = FALSE
    /\ ca_certs = FALSE
    /\ loopRunning = FALSE
    /\ loopStarts = 0
    /\ loopStops = 0
    /\ disconnects = 0
    /\ subscriptions = {}
    /\ prevSubs = {}
    /\ lastAccepted = NoneAccepted
    /\ lastCmd = Cmd("none", EmptyTopic, 0)
    /\ calls = <<>>
    /\ PublisherInit
    /\ SettingsInit
    /\ cmdqueue = [c \in Consoles |-> IF c = "Top" THEN <<ArgLine>> ELSE <<>>]
    /\ lastcmd = [c \in Consoles |-> <<>>]
    /\ recording_file = NotOpen
    /\ playback_file = 0
    /\ script \in LoopScripts
    /\ recorded = <<>>
    /\ linesTaken = 0
    /\ lastLine = <<>>
    /\ fromPlayback = FALSE
    /\ wasRecording = NotOpen
    /\ appended = FALSE
    /\ consults = <<>>
    /\ played = 0
    /\ ReplayInit
    /\ FilesInit
    /\ FieldsInit
    /\ HandleInit

NextLoop ==
    \E typed \in OperatorLines :
       /\ Pass(typed)
       /\ linesTaken' = (linesTaken + 1) % (MaxSteps + 1)
       /\ UNCHANGED <<recorded, played, replayVars, fileVars>>

SpecLoop == InitLoop /\ [][NextLoop]_vars /\ WF_vars(NextLoop)

\* The settable fields over a run of MaxFieldLines command lines, from the start
\* of MainConsole; the setters never look at the version of the protocol library.
InitFields == Init /\ pahoVersion = "1.4+"

\* A command line of such a run, with what no setting command touches.
FieldLine ==
    /\ fieldLines < MaxFieldLines
    /\ fieldLines' = fieldLines + 1
    /\ PublisherOutsidePublish
    /\ UNCHANGED <<scriptVars, replayVars, fileVars, handleVars>>

\* The fields of this section across a command that is not one of its setters.
FieldsKept ==
    UNCHANGED <<client_args, host, tls_args, logging_enabled, logging_indent, prompt_verbosity>>

NextFields ==
    \/ \E arg \in NameArgs : do_client_id(arg) /\ FieldLine
    \/ \E arg \in BoolArgs : do_clean_session(arg) /\ FieldLine
    \/ \E arg \in EnumArgs : do_protocol(arg) /\ FieldLine
    \/ \E arg \in TransportArgs : do_transport(arg) /\ FieldLine
    \/ do_connection /\ FieldLine /\ FieldsKept /\ notice' = {} /\ UNCHANGED setVars
    \/ ConnectionExit("exit") /\ FieldLine /\ FieldsKept /\ notice' = {} /\ UNCHANGED setVars
    \/ \E arg \in NameArgs : do_host(arg) /\ FieldLine
    \/ \E arg \in NumberArgs : do_port(arg) /\ FieldLine /\ FieldsKept /\ notice' = {}
    \/ \E arg \in NumberArgs : do_keepalive(arg) /\ FieldLine /\ FieldsKept /\ notice' = {}
    \/ \E arg \in EnumArgs : do_cert_reqs(arg) /\ FieldLine
    \/ \E arg \in EnumArgs : do_tls_version(arg) /\ FieldLine
    \/ \E arg \in NameArgs : do_ciphers(arg) /\ FieldLine
    \/ \E arg \in BoolArgs : do_tls_insecure(arg) /\ FieldLine
    \/ \E arg \in BoolArgs : do_logging(arg) /\ FieldLine
    \/ \E arg \in NumberArgs : do_logging_indent(arg) /\ FieldLine
    \/ \E arg \in VerbosityArgs : do_prompt_verbosity(arg) /\ FieldLine
    \/ \E arg \in NumberArgs : do_pacing(arg) /\ FieldLine /\ FieldsKept
                                /\ notice' = (IF arg = Blank THEN {"current"} ELSE {})

SpecFields == InitFields /\ [][NextFields]_vars

\* ------------------------------------------------- the handle in the context
\* The handle across a command: do_connection constructs one from the
\* client_args of the moment and forgets it when ConnectionConsole returns; a
\* tls_set call that returns configures TLS on it, and no call the program
\* makes takes that back.
HandleTracked ==
    /\ builtFrom' = (IF mqttclient' = mqttclient THEN builtFrom
                     ELSE IF mqttclient' = NoHandle THEN NoIdentity ELSE client_args)
    /\ tlsOnHandle' = (IF mqttclient' # mqttclient THEN FALSE
                       ELSE tlsOnHandle \/ \E i \in 1..Len(calls') :
                                              calls'[i].op = "tls_set" /\ calls'[i].rc # RAISED)

\* A command line of SpecTls or SpecIdentity that is not a setting command.
SessionLine ==
    /\ HandleTracked
    /\ PublisherOutsidePublish
    /\ FieldsKept
    /\ notice' = {}
    /\ UNCHANGED <<setVars, scriptVars, replayVars, fileVars, fieldLines>>

\* Connection attempts on the handles of a run, with the certificate-authority
\* path set and cleared in between; from the state in which the first
\* `connection` of a run has entered ConnectionConsole.
NextTls ==
    \/ \E b \in BOOLEAN : do_ca_certs_filepath(b) /\ SessionLine
    \/ do_connect /\ SessionLine
    \/ \E name \in ExitCommands \cup {"disconnect"} : MessagingExit(name) /\ SessionLine
    \/ ConnectionExit("exit") /\ SessionLine
    \/ do_connection /\ SessionLine

SpecTls == InitSettings /\ [][NextTls]_vars

IdentityNames == {"client_id", "clean_session", "protocol", "transport"}

\* A line naming a MainConsole command in a console that has no such method:
\* cmd.Cmd.default prints "*** Unknown syntax" and nothing is assigned.
UnknownIdentityLine(name, arg) ==
    /\ console \in {"Top", "Connection", "Messaging"}
    /\ ~HasIdentityCommands(console)
    /\ NoSessionChange("*** Unknown syntax")
    /\ lastArg' = <<name>> \o arg
    /\ notice' = {"*** Unknown syntax"}
    /\ FieldsKept
    /\ UNCHANGED <<port, keepalive, pacing, prevNum, diag>>

\* A setting line of SpecIdentity.
IdentityLine ==
    /\ HandleTracked
    /\ PublisherOutsidePublish
    /\ UNCHANGED <<scriptVars, replayVars, fileVars, fieldLines>>

\* The ClientIdentity and the handles built from it, over whole runs: the
\* identity commands typed at every console, and the commands that move between
\* the consoles.
NextIdentity ==
    \/ \E arg \in NameArgs : do_client_id(arg) /\ IdentityLine
    \/ \E arg \in {Blank, <<"false">>} : do_clean_session(arg) /\ IdentityLine
    \/ \E arg \in {Blank, <<"3">>} : do_protocol(arg) /\ IdentityLine
    \/ \E arg \in {<<"tcp">>, <<"websockets">>} : do_transport(arg) /\ IdentityLine
    \/ \E name \in IdentityNames, arg \in {Blank, <<"false">>} :
          UnknownIdentityLine(name, arg) /\ IdentityLine
    \/ do_connection /\ SessionLine
    \/ do_connect /\ SessionLine
    \/ MessagingExit("exit") /\ SessionLine
    \/ ConnectionExit("exit") /\ SessionLine

SpecIdentity == InitFields /\ [][NextIdentity]_vars

\* ------------------------------------------------------ client callbacks
Callbacks ==
    {"on_connect", "on_disconnect", "on_message", "on_publish", "on_subscribe",
     "on_unsubscribe", "on_log"}

\* A variant that prints whatever the flag says.
log_Always(enabled, force) == TRUE

\* ConsoleContext.log prints the text if logging is enabled or force is set.
log(enabled, force) == enabled \/ force

\* A callback run by the handle's loop thread between two command lines: it
\* formats its arguments and calls userdata.log, on_message with force=True.
Callback(name) ==
    /\ loopRunning
    /\ lastCmd' = Cmd(name, EmptyTopic, 0)
    /\ calls' = <<>>
    /\ prevSubs' = subscriptions
    /\ lastPub' = NoPub
    /\ notice' = (IF log(logging_enabled, name = "on_message") THEN {"log"} ELSE {})
    /\ FieldsKept
    /\ UNCHANGED <<console, pahoVersion, mqttclient, handlesBuilt, connArgs, loopVars,
                   subscriptions, lastAccepted, msg_seq, pubsIssued, onlySeqAccepted,
                   setVars, scriptVars, replayVars, fileVars, fieldLines, handleVars>>

\* A command line of SpecCallbacks that is not a setting command.
BetweenCallbacks ==
    /\ FieldsKept
    /\ notice' = {}
    /\ UNCHANGED <<setVars, scriptVars, replayVars, fileVars, fieldLines, handleVars>>

\* One Messaging session with the loop thread's callbacks between its command
\* lines, from the state in which the first `connect` of a run has entered it.
NextCallbacks ==
    \/ \E name \in Callbacks : Callback(name)
    \/ \E arg \in BoolArgs : do_logging(arg) /\ PublisherOutsidePublish
                             /\ UNCHANGED <<scriptVars, replayVars, fileVars, fieldLines, handleVars>>
    \/ \E topic \in PublishTopics : do_publish(topic, 0, "seq", NoFetch) /\ BetweenCallbacks
    \/ RegistryCommands(PublishTopics) /\ PublisherOutsidePublish /\ BetweenCallbacks
    \/ \E name \in ExitCommands \cup {"disconnect"} :
          MessagingExit(name) /\ PublisherOutsidePublish /\ BetweenCallbacks

SpecCallbacks == InitRegistry /\ [][NextCallbacks]_vars

\* ------------------------------------------- the topic text of a command
\* The characters of the argument texts the operator types.
Space == " "
Quote == "\""
TopicChars == {"a", Space, Quote}
Texts == UNION {[1..n -> TopicChars] : n \in 0..MaxTextLen}

RECURSIVE lstrip(_)
lstrip(text) == IF text # <<>> /\ Head(text) = Space THEN lstrip(Tail(text)) ELSE text

RECURSIVE rstrip(_)
rstrip(text) ==
    IF text # <<>> /\ text[Len(text)] = Space THEN rstrip(SubSeq(text, 1, Len(text) - 1))
    ELSE text

\* cmd.Cmd.parseline hands the handler the text after the command word, stripped.
strip(text) == rstrip(lstrip(text))

\* shlex.split reading the rest of a line: tok is the token read so far, inTok
\* says that a token has begun, inQuote that a quotation is open. A line that
\* ends inside a quotation raises ValueError.
RECURSIVE shlex_read(_, _, _, _)
shlex_read(rest, tok, inTok, inQuote) ==
    IF rest = <<>>
    THEN [raised |-> inQuote, tokens |-> IF inTok /\ ~inQuote THEN <<tok>> ELSE <<>>]
    ELSE LET c == Head(rest)
             t == Tail(rest)
         IN IF inQuote
            THEN IF c = Quote THEN shlex_read(t, tok, TRUE, FALSE)
                 ELSE shlex_read(t, Append(tok, c), TRUE, TRUE)
            ELSE IF c = Space
                 THEN LET r == shlex_read(t, <<>>, FALSE, FALSE)
                      IN IF inTok THEN [r EXCEPT !.tokens = <<tok>> \o @] ELSE r
                 ELSE IF c = Quote THEN shlex_read(t, tok, TRUE, TRUE)
                 ELSE shlex_read(t, Append(tok, c), TRUE, FALSE)

shlex_split(line) == shlex_read(line, <<>>, FALSE, FALSE)

\* A topic string as the value the handlers take: EmptyTopic for "" and None,
\* and a different number for every other string.
RECURSIVE TopicOf(_)
TopicOf(chars) ==
    IF chars = <<>> THEN EmptyTopic
    ELSE TopicOf(SubSeq(chars, 1, Len(chars) - 1)) * (Cardinality(TopicChars) + 1)
         + (CHOOSE k \in 1..Cardinality(TopicChars) :
               <<"a", Space, Quote>>[k] = chars[Len(chars)])

\* SubscriptionHandler.parse_sub_input: the first token is the topic, the
\* second the quality of service; missing tokens are None.
parse_sub_input(line) ==
    LET r == shlex_split(line)
        topic == IF Len(r.tokens) >= 1 THEN r.tokens[1] ELSE <<>>
        qos_str == IF Len(r.tokens) >= 2 THEN r.tokens[2] ELSE <<>>
    IN [raised |-> r.raised,
        topic |-> TopicOf(topic),
        qos |-> IF isdigit(qos_str) /\ int(qos_str) \in QoS THEN int(qos_str) ELSE 0]

\* do_subscribe on a typed text: parse_subscribe parses it, and do_subscribe's
\* except clause reports a ValueError of the parse.
subscribe_text(text) ==
    LET sub == parse_sub_input(strip(text))
    IN /\ lastArg' = strip(text)
       /\ IF sub.raised
          THEN /\ console = "Messaging"
               /\ NoSessionChange("subscribe")
               /\ notice' = {"Unexpected error:"}
          ELSE /\ do_subscribe(sub.topic, sub.qos)
               /\ notice' = {}

\* do_unsubscribe on a typed text: the text itself is the topic.
unsubscribe_text(text) ==
    /\ lastArg' = strip(text)
    /\ do_unsubscribe(TopicOf(strip(text)))
    /\ notice' = {}

\* A line of SpecQuoted.
TextLine ==
    /\ PublisherOutsidePublish
    /\ FieldsKept
    /\ UNCHANGED <<port, keepalive, pacing, prevNum, diag>>
    /\ UNCHANGED <<scriptVars, replayVars, fileVars, fieldLines, handleVars>>

\* One Messaging session in which the operator types the topics of subscribe
\* and unsubscribe as texts, from the state in which the first `connect` of a
\* run has entered it.
NextQuoted ==
    \/ \E text \in Texts : subscribe_text(text) /\ TextLine
    \/ \E text \in Texts : unsubscribe_text(text) /\ TextLine

SpecQuoted == InitRegistry /\ [][NextQuoted]_vars

\* ------------------------------------------------ a session and its replay
\* What the operator types in a session that is recorded from its first line.
SessionLines ==
    {<<>>, <<"connection">>, <<"will", "t", "m">>, <<"connect">>, <<"exit">>,
     <<"stop_recording">>}

\* The trace after a step: the protocol calls it issued, and the connection
\* arguments if it changed them.
Traced ==
    trace' = [calls |-> trace.calls \o calls',
              config |-> IF connArgs' # connArgs THEN Append(trace.config, connArgs')
                         ELSE trace.config]

\* Run 1: `record rec` as the first line, then the session, until the recording
\* is closed.
RecordedSession ==
    /\ run = 1
    /\ \E typed \in SessionLines \cup {<<"record", "rec">>} :
          /\ (linesTaken = 0) = (typed = <<"record", "rec">>)
          /\ linesTaken > 0 => recording_file # NotOpen
          /\ Dispatch(typed)
    /\ Traced
    /\ UNCHANGED <<run, firstTrace, fileVars>>

\* A later run of the program (__main__ from the start, the same version of the
\* protocol library) next to the file run 1 recorded, which it will play back.
StartReplay ==
    /\ run = 1
    /\ linesTaken > 0
    /\ recording_file = NotOpen
    /\ run' = 2
    /\ firstTrace' = trace
    /\ trace' = NoTrace
    /\ script' = recorded
    /\ console' = "Top"
    /\ mqttclient' = NoHandle
    /\ handlesBuilt' = 0
    /\ will' = "None"
    /\ username' = FALSE
    /\ ca_certs' = FALSE
    /\ loopRunning' = FALSE
    /\ loopStarts' = 0
    /\ loopStops' = 0
    /\ disconnects' = 0
    /\ subscriptions' = {}
    /\ prevSubs' = {}
    /\ lastAccepted' = NoneAccepted
    /\ lastCmd' = Cmd("none", EmptyTopic, 0)
    /\ calls' = <<>>
    /\ msg_seq' = 1
    /\ pubsIssued' = 0
    /\ onlySeqAccepted' = TRUE
    /\ lastPub' = NoPub
    /\ cmdqueue' = [c \in Consoles |-> <<>>]
    /\ lastcmd' = [c \in Consoles |-> <<>>]
    /\ playback_file' = 0
    /\ linesTaken' = 0
    /\ lastLine' = <<>>
    /\ fromPlayback' = FALSE
    /\ wasRecording' = NotOpen
    /\ appended' = FALSE
    /\ consults' = <<>>
    /\ played' = 0
    /\ UNCHANGED <<pahoVersion, recording_file, recorded, setVars, fieldVars, handleVars, fileVars>>

\* Run 2: `playback` of the recorded file as the first line, then only the
\* lines it supplies; the protocol client returns the result codes of run 1.
Replay ==
    /\ run = 2
    /\ console \in Consoles
    /\ linesTaken = 0 \/ cmdqueue[console] # <<>>
    /\ Dispatch(<<"playback", "script">>)
    /\ Traced
    /\ \A k \in 1..Len(trace'.calls) :
          k <= Len(firstTrace.calls) => trace'.calls[k].rc = firstTrace.calls[k].rc
    /\ UNCHANGED <<run, firstTrace, fileVars>>

NextReplay ==
    \/ RecordedSession
    \/ StartReplay
    \/ Replay

\* From the start of the program, with no playback script in run 1.
SpecReplay == Init /\ [][NextReplay]_vars

\* The start of SpecRegistry is a state of the whole program: TLC finds this
\* invariant violated under Spec (connection, then connect with result code 0).
InitRegistryUnreached == ~InitRegistry

\* ================================================================== claims
Ops(cs) == [i \in 1..Len(cs) |-> cs[i].op]
LiveConsoles == {"Top", "Connection", "Messaging"}
MessagingExits == {"disconnect", "exit", "quit", "EOF"}

\* C1: when Messaging is left by disconnect, exit, quit or EOF, the step that
\* leaves it calls disconnect and then loop_stop on the handle, each once, and
\* control is back in Connection-Setup only after both; while a session runs
\* neither has been called for it, so each is called exactly once per session.
C1_SessionBalance ==
    /\ console = "Messaging" => (disconnects = loopStarts - 1 /\ loopStops = loopStarts - 1)
    /\ console \in {"Top", "Connection", "Exited"} =>
           (disconnects = loopStarts /\ loopStops = loopStarts)
C1_ExitStep ==
    (console = "Messaging" /\ lastCmd'.name \in MessagingExits) =>
        /\ console' = "Connection"
        /\ Ops(calls') = <<"disconnect", "loop_stop">>
        /\ disconnects' = disconnects + 1
        /\ loopStops' = loopStops + 1
C1_CleanupOncePerSession == []C1_SessionBalance /\ [][C1_ExitStep]_vars
C1_Witness ==
    /\ console = "Connection" /\ lastCmd.name = "EOF"
    /\ loopStarts = 1 /\ disconnects = 1 /\ loopStops = 1
    /\ Ops(calls) = <<"disconnect", "loop_stop">>

\* C2: every session that has been entered and is no longer running has had
\* its disconnect and loop_stop, also when Messaging was left by an exception
\* or an operator interrupt.
C2_CleanupOnEveryExit ==
    console # "Messaging" => (disconnects = loopStarts /\ loopStops = loopStarts)

\* C3: whenever a console waits for a command the background loop runs if and
\* only if that console is Messaging; loop starts minus loop stops is 0 or 1;
\* and the loop is started only by a connect whose result code is success.
C3_LoopIffMessaging ==
    /\ console \in LiveConsoles => (loopRunning <=> console = "Messaging")
    /\ loopStarts - loopStops \in {0, 1}
C3_StartStep ==
    (loopStarts' # loopStarts \/ (loopRunning' /\ ~loopRunning)) =>
        /\ lastCmd'.name = "connect"
        /\ loopStarts' = loopStarts + 1
        /\ \E i \in 1..Len(calls') - 1 :
              /\ calls'[i].op = "connect" /\ calls'[i].rc = MQTT_ERR_SUCCESS
              /\ calls'[i + 1].op = "loop_start"
C3_LoopRunsExactlyInMessaging == []C3_LoopIffMessaging /\ [][C3_StartStep]_vars
C3_Witness ==
    /\ console = "Messaging" /\ loopRunning /\ loopStarts = 1 /\ loopStops = 0
    /\ lastCmd.name = "subscribe"

\* C4: a connect in which a step raises, or whose protocol connect returns a
\* non-success code, stays in Connection-Setup with its command loop alive:
\* Messaging is not entered, and loop_start, disconnect and loop_stop are not called.
FailedAttempt(cs) ==
    \/ \E i \in 1..Len(cs) : cs[i].rc = RAISED
    \/ \E i \in 1..Len(cs) : cs[i].op = "connect" /\ cs[i].rc # MQTT_ERR_SUCCESS
C4_FailedStep ==
    (console = "Connection" /\ lastCmd'.name = "connect" /\ FailedAttempt(calls')) =>
        /\ console' = "Connection"
        /\ \A i \in 1..Len(calls') : calls'[i].op \notin {"loop_start", "disconnect", "loop_stop"}
        /\ UNCHANGED <<loopRunning, loopStarts, loopStops, disconnects, mqttclient>>
C4_FailedConnectStays == [][C4_FailedStep]_vars
C4_Witness ==
    /\ console = "Connection" /\ lastCmd.name = "connect"
    /\ Len(calls) = 2 /\ calls[1].op = "will_set" /\ calls[2].rc = RAISED

\* C5: the calls of a connect are issued in the order set-will, credentials,
\* TLS, connect; set-will is issued exactly when a will is stored, the
\* credentials step carries the stored username or else clears the handle's
\* username, TLS is configured exactly when a CA path is stored; and connect is
\* issued only after every applicable earlier step has been issued and returned.
Rank(op) ==
    CASE op = "will_set" -> 1
      [] op = "username_pw_set(username,password)" -> 2
      [] op \in ClearingSteps -> 2
      [] op = "tls_set" -> 3
      [] op = "tls_insecure_set" -> 4
      [] op = "connect" -> 5
      [] OTHER -> 6
Has(cs, op) == \E i \in 1..Len(cs) : cs[i].op = op
C5_ConnectStep ==
    (console = "Connection" /\ lastCmd'.name = "connect") =>
        LET cs == calls' IN
        /\ Len(cs) >= 1
        /\ \A i, j \in 1..Len(cs) : i < j => (Rank(cs[i].op) < Rank(cs[j].op) /\ cs[i].rc # RAISED)
        /\ Has(cs, "will_set") => will # "None"
        /\ will # "None" => cs[1].op = "will_set"
        /\ Has(cs, "username_pw_set(username,password)") => username
        /\ (\E op \in ClearingSteps : Has(cs, op)) => ~username
        /\ (Has(cs, "tls_set") \/ Has(cs, "tls_insecure_set")) => ca_certs
        /\ Has(cs, "connect") =>
              /\ will # "None" => Has(cs, "will_set")
              /\ username => Has(cs, "username_pw_set(username,password)")
              /\ ~username => \E op \in ClearingSteps : Has(cs, op)
              /\ ca_certs => (Has(cs, "tls_set") /\ Has(cs, "tls_insecure_set"))
C5_ConnectCallOrder == [][C5_ConnectStep]_vars
C5_Witness ==
    /\ lastCmd.name = "connect" /\ will # "None" /\ ~username /\ ca_certs
    /\ Len(calls) >= 5
    /\ calls[1].op = "will_set" /\ calls[2].op \in ClearingSteps
    /\ calls[3].op = "tls_set" /\ calls[4].op = "tls_insecure_set"
    /\ calls[5].op = "connect"

\* C6: the handle is present exactly while the console is Connection-Setup or
\* Messaging and absent whenever control is in Top (or the program has left
\* Top); every `connection` command installs a handle that was never in the
\* context before.
C6_HandleIffInside ==
    /\ console \in {"Connection", "Messaging"} => mqttclient # NoHandle
    /\ console \in {"Top", "Exited"} => mqttclient = NoHandle
C6_ConnectionStep ==
    (console = "Top" /\ lastCmd'.name = "connection") =>
        /\ mqttclient' # NoHandle
        /\ mqttclient' \notin 1..handlesBuilt
        /\ handlesBuilt' = handlesBuilt + 1
C6_HandleLifetime == []C6_HandleIffInside /\ [][C6_ConnectionStep]_vars
C6_Witness ==
    /\ console = "Top" /\ handlesBuilt = 2 /\ mqttclient = NoHandle
    /\ lastCmd.name \in ExitCommands

\* C7: the registry holds at most one Subscription per topic, and the entry of
\* a topic carries the qos of the latest accepted subscribe for that topic.
C7_OnePerTopicLatestQos ==
    /\ \A s1, s2 \in subscriptions : s1.topic = s2.topic => s1 = s2
    /\ \A s \in subscriptions : s.qos = lastAccepted[s.topic]
C7_Witness ==
    /\ lastCmd.name = "subscribe" /\ Len(calls) = 1 /\ calls[1].rc = MQTT_ERR_SUCCESS
    /\ \E old \in prevSubs : old.topic = lastCmd.topic /\ old.qos # lastCmd.qos
    /\ \E other \in subscriptions : other.topic # lastCmd.topic
    /\ Subscription(lastCmd.topic, lastCmd.qos) \in subscriptions

\* C8: a subscribe whose protocol call does not report acceptance leaves the
\* registry as it was, the topic's existing entry included; the registry
\* changes only on acceptance, and then in one step to the old registry without
\* the topic's entries plus the new entry.
C8_SubscribeGuardedByResult ==
    lastCmd.name = "subscribe" =>
        LET accepted == \E i \in 1..Len(calls) : calls[i].rc = MQTT_ERR_SUCCESS
            sub == Subscription(lastCmd.topic, lastCmd.qos)
        IN /\ ~accepted => subscriptions = prevSubs
           /\ accepted => subscriptions = {s \in prevSubs : s.topic # sub.topic} \cup {sub}
           /\ Len(calls) <= 1
C8_Witness ==
    /\ lastCmd.name = "subscribe" /\ Len(calls) = 1 /\ calls[1].rc = 1
    /\ \E old \in prevSubs : old.topic = lastCmd.topic /\ old.qos # lastCmd.qos
    /\ subscriptions = prevSubs

\* C9: unsubscribe with a non-empty topic issues one protocol unsubscribe call
\* for that topic; the topic's entry is removed if and only if the call reports
\* acceptance, and the entries of other topics stay as they were.
C9_UnsubscribeGuardedByResult ==
    (lastCmd.name = "unsubscribe" /\ lastCmd.topic # EmptyTopic) =>
        /\ Len(calls) = 1
        /\ calls[1].op = "unsubscribe" /\ calls[1].topic = lastCmd.topic
        /\ calls[1].rc = MQTT_ERR_SUCCESS =>
               subscriptions = {s \in prevSubs : s.topic # lastCmd.topic}
        /\ calls[1].rc # MQTT_ERR_SUCCESS => subscriptions = prevSubs
        /\ {s \in subscriptions : s.topic # lastCmd.topic}
               = {s \in prevSubs : s.topic # lastCmd.topic}
C9_Witness ==
    /\ lastCmd.name = "unsubscribe" /\ Len(calls) = 1 /\ calls[1].rc = MQTT_ERR_SUCCESS
    /\ \E s \in prevSubs : s.topic = lastCmd.topic
    /\ Cardinality(prevSubs) = 2 /\ Cardinality(subscriptions) = 1

\* C10: an unsubscribe_all in which every protocol call reports a result issues
\* exactly one unsubscribe call per tracked topic and leaves tracked exactly the
\* topics whose call reported non-acceptance, so none when all were accepted;
\* in every case it issues at most one call per tracked topic and none for others.
CallsFor(cs, topic) == {i \in 1..Len(cs) : cs[i].op = "unsubscribe" /\ cs[i].topic = topic}
C10_UnsubscribeAll ==
    lastCmd.name = "unsubscribe_all" =>
        /\ \A i \in 1..Len(calls) :
              /\ calls[i].op = "unsubscribe"
              /\ \E s \in prevSubs : s.topic = calls[i].topic
        /\ \A s \in prevSubs : Cardinality(CallsFor(calls, s.topic)) <= 1
        /\ console # "Crashed" =>
              /\ \A s \in prevSubs : Cardinality(CallsFor(calls, s.topic)) = 1
              /\ Len(calls) = Cardinality(prevSubs)
              /\ subscriptions =
                    {s \in prevSubs : \E i \in CallsFor(calls, s.topic) :
                                          calls[i].rc # MQTT_ERR_SUCCESS}
              /\ (\A i \in 1..Len(calls) : calls[i].rc = MQTT_ERR_SUCCESS) => subscriptions = {}
C10_Witness ==
    /\ lastCmd.name = "unsubscribe_all" /\ console = "Messaging"
    /\ Cardinality(prevSubs) = 2 /\ Len(calls) = 2
    /\ calls[1].rc = MQTT_ERR_SUCCESS /\ calls[2].rc = 1
    /\ subscriptions = {s \in prevSubs : s.topic = calls[2].topic}

\* C11: the n-th of n publishes in succession of a text with {seq}, each reported
\* as accepted, transmits the text with n substituted (1, 2, ..., n in that
\* order); a publish not reported as accepted does not advance the counter, and
\* neither does the on_publish callback.
Accepted(cs) == Len(cs) = 1 /\ cs[1].rc = MQTT_ERR_SUCCESS
C11_NthTransmitsN ==
    (lastCmd.name = "publish" /\ calls # <<>> /\ onlySeqAccepted) =>
        /\ lastPub.sent = Sent("seq", pubsIssued)
        /\ msg_seq = pubsIssued + 1
C11_NoAdvanceStep ==
    (\/ lastCmd'.name = "on_publish"
     \/ lastCmd'.name = "publish" /\ ~Accepted(calls')) => msg_seq' = msg_seq
C11_SeqCountsAccepted == []C11_NthTransmitsN /\ [][C11_NoAdvanceStep]_vars
C11_Witness ==
    /\ lastCmd.name = "publish" /\ Accepted(calls) /\ onlySeqAccepted
    /\ pubsIssued = 2 /\ lastPub.sent = Sent("seq", 2) /\ msg_seq = 3

\* C12: a publish, subscribe or unsubscribe with an empty topic issues no
\* protocol call and changes neither the sequence counter nor the registry.
C12_EmptyTopicStep ==
    (lastCmd'.name \in {"publish", "subscribe", "unsubscribe"} /\ lastCmd'.topic = EmptyTopic) =>
        /\ calls' = <<>>
        /\ msg_seq' = msg_seq
        /\ subscriptions' = subscriptions
        /\ console' = console
C12_EmptyTopicRejected == [][C12_EmptyTopicStep]_vars
C12_Witness ==
    /\ lastCmd.name = "unsubscribe" /\ lastCmd.topic = EmptyTopic /\ calls = <<>>
    /\ subscriptions # {} /\ prevSubs = subscriptions /\ msg_seq > 1

\* C13: a publish whose payload starts with from-url: and whose retrieval fails,
\* whatever the locator and the failure, is still issued, with the literal
\* from-url: text as payload; the failure never aborts the publish.
C13_FetchFailureStillPublishes ==
    (/\ lastCmd.name = "publish" /\ lastCmd.topic # EmptyTopic
     /\ lastPub.payload = "from-url" /\ lastPub.fetch \in {"URLError", "ValueError"}) =>
        /\ Len(calls) = 1 /\ calls[1].op = "publish"
        /\ lastPub.sent = Sent("from-url", 0)

\* C19: a port, keepalive or pacing line whose argument is not a value of the
\* field's domain (a positive integer; a non-negative number) leaves the stored
\* value as it was and prints a diagnostic.
IsPositiveInteger(s) == s # <<>> /\ (\A i \in 1..Len(s) : s[i] \in Digits) /\ int(s) > 0
IsNonNegativeNumber(s) == isfloat(s) /\ (s[1] # "-" \/ float(s) = 0)
Malformed(name, s) ==
    /\ s # <<>>
    /\ IF name = "pacing" THEN ~IsNonNegativeNumber(s) ELSE ~IsPositiveInteger(s)
Stored(name) == IF name = "port" THEN port ELSE IF name = "keepalive" THEN keepalive ELSE pacing
C19_MalformedRejected ==
    (lastCmd.name \in {"port", "keepalive", "pacing"} /\ Malformed(lastCmd.name, lastArg)) =>
        /\ Stored(lastCmd.name) = prevNum
        /\ diag

\* C20: after any sequence of port and keepalive lines, blank arguments
\* included, the stored port and keepalive are strictly positive integers.
C20_PortKeepalivePositive ==
    /\ port \in Nat /\ port > 0
    /\ keepalive \in Nat /\ keepalive > 0

\* C14: while a recording is open, every non-empty line that invokes a command,
\* typed or supplied by playback, is appended to the recording file as it is
\* dispatched, except the lines that invoke playback or stop_recording; a line
\* that invokes another command and only mentions one of those words is
\* recorded too.
C14_RecordsAllButControlLines ==
    (/\ linesTaken > 0 /\ wasRecording # NotOpen /\ lastLine # <<>>
     /\ lastCmd.name # "*** Unknown syntax") =>
        /\ appended <=> Name(lastLine) \notin {"playback", "stop_recording"}
        /\ appended => recorded # <<>> /\ recorded[Len(recorded)] = lastLine

C17_OneLinePending ==
    \A c \in Consoles : Len(cmdqueue[c]) <= 1 /\ (c # console => cmdqueue[c] = <<>>)
C17_ReadIsPlayedOrPending ==
    (console \in Consoles /\ playback_file > 0) =>
        played + Len(cmdqueue[console]) = playback_file - 1
C17_PendingIsLastRead ==
    (console \in Consoles /\ cmdqueue[console] # <<>>) =>
        playback_file > 1 /\ Head(cmdqueue[console]) = script[playback_file - 1]
C17_PlayedInFileOrder ==
    (linesTaken > 0 /\ fromPlayback) =>
        played \in 1..Len(script) /\ lastLine = script[played]
C17_QueueFirstStep ==
    (console \in Consoles /\ cmdqueue[console] # <<>>) =>
        fromPlayback' /\ lastLine' = Head(cmdqueue[console]) /\ played' = played + 1
C17_PlaybackOnceInOrder ==
    /\ [](C17_OneLinePending /\ C17_ReadIsPlayedOrPending /\ C17_PendingIsLastRead
          /\ C17_PlayedInFileOrder)
    /\ [][C17_QueueFirstStep]_vars
C17_Witness ==
    /\ script = <<(<<"connection">>), <<"connect">>, <<"exit">>>>
    /\ console = "Connection" /\ loopStarts = 1 /\ loopStops = 1
    /\ fromPlayback /\ lastLine = <<"exit">> /\ played = 3 /\ playback_file = 0

\* C18: the playback file is consulted before a console's loop starts and after
\* every dispatch that does not end the loop, never after one that ends it;
\* a read that meets the end of the file or a blank line closes the file and
\* queues nothing, and no line after a blank line is ever dispatched.
C18_ConsultStep ==
    (console \in Consoles /\ linesTaken' = linesTaken + 1) =>
        LET at == IF lastCmd'.name = "playback" THEN 1 ELSE playback_file
            stopped == lastCmd'.name = "exit"
        IN /\ (console' = console) => consults' = <<console>>
           /\ (console' \in Consoles /\ console' # console /\ ~stopped) => consults' = <<console'>>
           /\ stopped => \A i \in 1..Len(consults') : consults'[i] # console
           /\ (console' \in Consoles /\ at > 0) =>
                 IF at > Len(script) \/ script[at] = <<>>
                 THEN playback_file' = 0 /\ cmdqueue'[console'] = <<>>
                 ELSE playback_file' = at + 1 /\ cmdqueue'[console'] = <<script[at]>>
C18_NothingPastBlank ==
    /\ playback_file > 0 =>
          \A i \in 1..(playback_file - 1) : i <= Len(script) /\ script[i] # <<>>
    /\ (linesTaken > 0 /\ fromPlayback) => \A i \in 1..played : script[i] # <<>>
    /\ \A c \in Consoles : \A i \in 1..Len(cmdqueue[c]) : cmdqueue[c][i] # <<>>
C18_ConsultAndClose == []C18_NothingPastBlank /\ [][C18_ConsultStep]_vars
C18_Witness ==
    /\ script = <<(<<"connection">>), <<>>, <<"exit">>>>
    /\ console = "Connection" /\ lastLine = <<"connection">> /\ fromPlayback
    /\ consults = <<"Connection">> /\ playback_file = 0 /\ cmdqueue["Connection"] = <<>>

\* C16: a run that replays the file recorded in a session issues the same
\* protocol calls and goes through the same configuration changes as the
\* session did, whatever the operator typed, empty lines included.
ReplayDone ==
    /\ run = 2 /\ linesTaken > 0 /\ playback_file = 0
    /\ console \in Consoles /\ cmdqueue[console] = <<>>
C16_ReplayReproducesSession == ReplayDone => trace = firstTrace

\* ------------------------------------------------------------------ C21..C24
\* The field a setting command names, and the default recorded for it.
Field(name) ==
    CASE name = "client_id" -> client_args.client_id
      [] name = "clean_session" -> client_args.clean_session
      [] name = "protocol" -> client_args.protocol
      [] name = "transport" -> client_args.transport
      [] name = "host" -> host
      [] name = "port" -> port
      [] name = "keepalive" -> keepalive
      [] name = "cert_reqs" -> tls_args.cert_reqs
      [] name = "tls_version" -> tls_args.tls_version
      [] name = "ciphers" -> tls_args.ciphers
      [] name = "tls_insecure" -> tls_args.tls_insecure
      [] name = "logging" -> logging_enabled
      [] name = "logging_indent" -> logging_indent
      [] name = "prompt_verbosity" -> prompt_verbosity
      [] name = "pacing" -> pacing
Default(name) ==
    CASE name = "client_id" -> "default"
      [] name = "protocol" -> DefaultProtocol
      [] name = "transport" -> "tcp"
      [] name = "host" -> "localhost"
      [] name = "port" -> DefaultPort
      [] name = "keepalive" -> DefaultKeepalive
      [] name = "cert_reqs" -> DefaultCertReqs
      [] name = "tls_version" -> DefaultTlsVersion
      [] name = "ciphers" -> "None"
      [] name = "logging_indent" -> DefaultLoggingIndent
      [] name = "prompt_verbosity" -> "H"
      [] name = "pacing" -> DefaultPacing
BlankLine(name) == lastCmd.name = name /\ lastArg = Blank

\* C21: `clean_session` with a blank argument leaves the flag at the negation of
\* the value it found, so a second blank line in a row restores the value the
\* first one found; `clean_session false` leaves it false whatever it found;
\* and every clean_session line that leaves the flag false prints the warning.
C21_Line ==
    lastCmd.name = "clean_session" =>
        /\ lastArg = Blank => client_args.clean_session = ~prevNum
        /\ lastArg = <<"false">> => client_args.clean_session = FALSE
        /\ ~client_args.clean_session => "clean_session=False" \in notice
C21_TwoBlankLines ==
    (BlankLine("clean_session") /\ lastCmd'.name = "clean_session" /\ lastArg' = Blank)
        => client_args'.clean_session = prevNum
C21_CleanSession == []C21_Line /\ [][C21_TwoBlankLines]_vars
C21_Witness ==
    /\ BlankLine("clean_session") /\ fieldLines = 3
    /\ prevNum = FALSE /\ client_args.clean_session

\* C22 as stated: clean_session, tls_insecure and logging each leave the
\* negation of the value they found when given no argument.
C22_AllBooleansToggle ==
    \A name \in {"clean_session", "tls_insecure", "logging"} :
        BlankLine(name) => Field(name) = ~prevNum

\* C22, amended: clean_session and logging toggle on a blank argument;
\* tls_insecure with a blank argument keeps the value it found, without a
\* diagnostic.
C22_TogglesButTlsInsecure ==
    /\ \A name \in {"clean_session", "logging"} : BlankLine(name) => Field(name) = ~prevNum
    /\ BlankLine("tls_insecure") => tls_args.tls_insecure = prevNum /\ ~diag
C22_Witness ==
    /\ BlankLine("tls_insecure") /\ prevNum = TRUE /\ tls_args.tls_insecure
    /\ "tls_insecure=True" \in notice

\* C23 as stated: a blank argument resets each of the twelve non-boolean fields
\* to its default.
NonBooleanFields ==
    {"client_id", "protocol", "transport", "host", "port", "keepalive", "cert_reqs",
     "tls_version", "ciphers", "prompt_verbosity", "pacing", "logging_indent"}
C23_BlankResetsEveryField ==
    \A name \in NonBooleanFields : BlankLine(name) => Field(name) = Default(name)

\* C23, amended: a blank argument resets client_id, protocol, host, port,
\* keepalive, cert_reqs, tls_version, ciphers and prompt_verbosity to their
\* defaults; `transport` with a blank argument keeps the transport and prints
\* the diagnostic; `pacing` and `logging_indent` with a blank argument keep the
\* value and print it.
C23_BlankResetsNineFields ==
    /\ \A name \in NonBooleanFields \ {"transport", "pacing", "logging_indent"} :
          BlankLine(name) => Field(name) = Default(name) /\ ~diag
    /\ BlankLine("transport") => client_args.transport = prevNum /\ diag
    /\ \A name \in {"pacing", "logging_indent"} :
          BlankLine(name) => Field(name) = prevNum /\ ~diag /\ notice = {"current"}
C23_Witness ==
    /\ BlankLine("cert_reqs") /\ prevNum # DefaultCertReqs
    /\ tls_args.cert_reqs = DefaultCertReqs

\* C24: the stored protocol version is one of the two supported versions and
\* the stored transport is tcp or websockets, whatever protocol and transport
\* lines were given; a line whose argument is outside the domain keeps the
\* value it found and prints a diagnostic.
OutsideDomain(name, arg) ==
    IF name = "protocol" THEN arg \notin {Blank, <<"3">>, <<"4">>}
    ELSE arg \notin {<<"tcp">>, <<"websockets">>}
C24_EnumeratedValues ==
    /\ client_args.protocol \in mqtt_protocol_versions
    /\ client_args.transport \in mqtt_transports
    /\ \A name \in {"protocol", "transport"} :
          (lastCmd.name = name /\ OutsideDomain(name, lastArg)) => Field(name) = prevNum /\ diag
C24_Witness ==
    /\ lastCmd.name = "protocol" /\ lastArg = <<"9">> /\ diag
    /\ prevNum = 3 /\ client_args.protocol = 3 /\ client_args.transport = "websockets"

\* ------------------------------------------------------------------ C25..C28
\* C25: no command line ends its console's loop or the program except exit,
\* quit, end-of-input and, in Messaging, disconnect: after any other command,
\* one whose protocol call raises included, the same console goes on.
C25_OnlyExitCommandsEndALoop ==
    (lastCmd.name \notin ExitCommands \cup {"disconnect", "interrupt", "connection", "connect"})
        => console \in LiveConsoles

\* C26: in every connection attempt, TLS is configured on the handle if and
\* only if the certificate-authority path is non-empty at that moment.
C26_TlsIffCaPath ==
    (lastCmd.name = "connect" /\ Has(calls, "connect")) => (tlsOnHandle <=> ca_certs)

\* C28: while a handle exists the console is Connection or Messaging, the
\* client_args equal the ones the handle was built from, and no command
\* changes them.
C28_IdentityOfHandle ==
    mqttclient # NoHandle => console \in {"Connection", "Messaging"} /\ builtFrom = client_args
C28_NoChangeStep ==
    mqttclient # NoHandle => client_args' = client_args
C28_IdentityFrozen == []C28_IdentityOfHandle /\ [][C28_NoChangeStep]_vars
C28_Witness ==
    /\ console = "Messaging" /\ lastCmd.name = "*** Unknown syntax"
    /\ lastArg = <<"clean_session", "false">>
    /\ builtFrom = client_args /\ client_args.clean_session /\ client_args.protocol = 3

\* C27: a callback of the loop thread, run between any two command lines,
\* changes no parameter container, no command queue, neither file handle, not
\* the registry and not the sequence counter; it reads the logging flag and
\* prints: always for on_message, otherwise exactly when logging is enabled.
C27_CallbackStep ==
    lastCmd'.name \in Callbacks =>
        /\ UNCHANGED <<client_args, host, port, keepalive, will, username, ca_certs, tls_args>>
        /\ UNCHANGED <<cmdqueue, recording_file, playback_file, subscriptions, msg_seq>>
        /\ UNCHANGED <<logging_enabled, logging_indent, prompt_verbosity, pacing, mqttclient, console>>
        /\ ("log" \in notice') = (logging_enabled \/ lastCmd'.name = "on_message")
C27_CallbacksOnlyLog == [][C27_CallbackStep]_vars
C27_Witness ==
    /\ lastCmd.name = "on_subscribe" /\ notice = {} /\ ~logging_enabled
    /\ subscriptions # {} /\ msg_seq > 1

\* C29 as stated: in a subscribe that issues its protocol call, the topic's
\* existing entry is gone by the time of the call, so after the command the
\* topic has no entry but the new one, and that one only after acceptance.
C29_DiscardedBeforeCall ==
    (lastCmd.name = "subscribe" /\ calls # <<>>) =>
        \A s \in subscriptions :
            s.topic = lastCmd.topic =>
                /\ s = Subscription(lastCmd.topic, lastCmd.qos)
                /\ calls[1].rc = MQTT_ERR_SUCCESS

\* C29, amended: subscribe with a non-empty topic issues the protocol call
\* first, with the topic's existing entry still in the registry; the existing
\* entry is removed and the new one inserted only after the call reported
\* acceptance, and a call that is rejected or raises leaves the topic's entry
\* as it was.
C29_DiscardedOnAcceptance ==
    (lastCmd.name = "subscribe" /\ lastCmd.topic # EmptyTopic) =>
        LET mine(S) == {s \in S : s.topic = lastCmd.topic} IN
        /\ Len(calls) = 1 /\ calls[1].op = "subscribe"
        /\ calls[1].rc # MQTT_ERR_SUCCESS => mine(subscriptions) = mine(prevSubs)
        /\ calls[1].rc = MQTT_ERR_SUCCESS =>
               mine(subscriptions) = {Subscription(lastCmd.topic, lastCmd.qos)}
C29_Witness ==
    /\ lastCmd.name = "subscribe" /\ Len(calls) = 1 /\ calls[1].rc = RAISED
    /\ \E old \in subscriptions : old.topic = lastCmd.topic /\ old.qos # lastCmd.qos
    /\ console = "Messaging"

\* C30: `subscribe <text>` followed by `unsubscribe <text>` with the same topic
\* text (a text that reads as one topic, quoted or not), both accepted by the protocol client, unsubscribes the topic that was
\* subscribed and leaves no registry entry for it.
IsTopicText(text) == ~shlex_split(text).raised /\ Len(shlex_split(text).tokens) = 1
C30_Step ==
    (/\ lastCmd.name = "subscribe" /\ Accepted(calls)
     /\ lastCmd'.name = "unsubscribe" /\ Accepted(calls')
     /\ lastArg' = lastArg /\ IsTopicText(lastArg)) =>
        /\ calls'[1].topic = calls[1].topic
        /\ ~\E s \in subscriptions' : s.topic = calls[1].topic
C30_UnsubscribeSameTopic == [][C30_Step]_vars

\* C31: the value substituted for {seq} is the publisher's counter, which is 1
\* when Messaging is entered, goes up by one with every publish the protocol
\* client accepts, whatever its payload (with or without the placeholder, raw
\* bytes, zero length), and changes at no other step: the value is 1 plus the
\* number of publishes accepted so far in the session.
C31_Step ==
    /\ (lastCmd'.name = "publish" /\ lastPub'.sent.kind = "seq") => lastPub'.sent.seq = msg_seq
    /\ msg_seq' = (IF console = "Connection" /\ console' = "Messaging" THEN 1
                   ELSE IF lastCmd'.name = "publish" /\ Accepted(calls') THEN msg_seq + 1
                   ELSE msg_seq)
C31_SeqIsOnePlusAccepted == [][C31_Step]_vars
C31_Witness ==
    /\ console = "Messaging" /\ loopStarts = 1
    /\ lastCmd.name = "publish" /\ Accepted(calls)
    /\ lastPub.sent = Sent("seq", 3) /\ pubsIssued = 3
    /\ ~onlySeqAccepted

\* C32: after any `will` commands the stored last-will is absent or has a
\* non-empty topic, and a connect applies to the handle no last-will whose
\* topic is empty or missing.
C32_WillHasTopic ==
    /\ will \in {"None", "Topic"}
    /\ (lastCmd.name = "connect" /\ Has(calls, "will_set")) => will = "Topic"

\* C33: the queue of every console holds at most one line at any time, so a
\* playback line is appended to an empty queue and is the next line its
\* console dispatches; the command-line playback argument is the first line
\* dispatched.
C33_Queues ==
    /\ \A c \in Consoles : Len(cmdqueue[c]) <= 1
    /\ linesTaken = 0 => cmdqueue["Top"] = <<ArgLine>>
    /\ linesTaken = 1 => lastLine = ArgLine /\ fromPlayback
C33_Step ==
    (console \in Consoles /\ cmdqueue[console] # <<>>) =>
        /\ lastLine' = cmdqueue[console][1] /\ fromPlayback'
        /\ \A c \in Consoles : cmdqueue'[c] # <<>> => c = console' /\ playback_file' # 0
C33_AtMostOneQueued == []C33_Queues /\ [][C33_Step]_vars
C33_Witness ==
    /\ console = "Connection" /\ cmdqueue["Connection"] = <<ArgLine>>
    /\ fromPlayback /\ lastLine = <<"connection">> /\ linesTaken = 2

\* C34: every playback of a script file ends: whenever the playback file is
\* open, it is eventually closed.
C34_PlaybackEnds == (playback_file # 0) ~> (playback_file = 0)

\* C35: every file that record or playback opened is closed exactly once: no
\* more files are closed than were opened, and once the shutdown sequence of
\* __main__ has completed, every opened file has been closed.
C35_EveryFileClosed ==
    /\ filesClosed <= filesOpened
    /\ console = "Exited" => filesClosed = filesOpened

====
